---- MODULE Spec2Model ----
(***************************************************************************)
(* QueueMint: self-healing dead-letter-queue pipeline.                     *)
(*   Monitor  (dlq-monitor)      polls DLQs, deduplicates, enriches,       *)
(*                               publishes MessageEnriched, deletes.       *)
(*   Analyzer (failure-analyzer) classifies (cache, heuristics, LLM),      *)
(*                               stores a record, publishes the result.    *)
(*   Executor (action-executors) dispatches on the category to the retry,  *)
(*                               archive or escalate handler.              *)
(* Every await of the Monitor is one step, so that invocations interleave  *)
(* at the I/O calls exactly as overlapping Lambda invocations do.          *)
(***************************************************************************)
EXTENDS Integers, Sequences, FiniteSets, TLC

VARIABLES
    triggers,     \* the triggers configured for the Monitor (schedule, alarm)
    mon,          \* per Monitor invocation: position and locals of handler/processMessages
    dlq,          \* per source message: "none", "visible", "inflight" or "deleted"
    body,         \* per source message: its error message (the rules it matches)
    ledger,       \* deduplication table: retryCount per (messageId, queueName), NoItem if absent
    enrichedBus,  \* MessageEnriched events accepted by the bus and not yet acknowledged
    faults,       \* how many more collaborator calls may fail
    cache,        \* semantic cache: item per fingerprint, NoEntry if absent
    records,      \* classification record per messageId, NoEntry if absent
    clock,        \* hours gone by since the start
    classifiedBus,\* MessageClassified events accepted by the bus and not yet acknowledged
    effects,      \* per source message: sends, archive writes, alerts, incidents so far
    exec,         \* the last Executor invocation: event, handlers invoked, calls, result
    config,       \* the deployment's settings: confidence threshold and feature flags
    ana,          \* the last Analyzer invocation: event, path taken, calls, result
    hashed,       \* the last error pattern given to generateSemanticHash, and its hash
    hist,         \* per message: deduplication checks completed, events the bus accepted
    arrivals      \* per receipt handle: the SQS message as received, its queue, times processed

monVars == <<triggers, mon, dlq, body, ledger>>
anaVars == <<cache, records, clock>>
exeVars == <<effects, exec>>
downstream == <<cache, records, clock, classifiedBus, effects, exec>>
restVars == <<config, ana, hashed, hist, arrivals>>
vars == <<triggers, mon, dlq, body, ledger, enrichedBus, faults, cache, records, clock,
          classifiedBus, effects, exec, config, ana, hashed, hist, arrivals>>

---------------------------------------------------------------------------
\* Bounds of the model.

\* How many collaborator calls may fail in one behaviour.
MaxFaults == 2
\* Largest retryCount an entry left in the ledger by earlier invocations holds at the start.
MaxInitRetry == 4
\* Cap of the ledger counter (never reached within the other bounds).
MaxRetryCount == 9
MaxExecRetry == 6
PipeMaxFaults == 2
MaxClock == 2
\* The hour of the day at which a behaviour starts.
StartHour == 22
\* How many times the bus may deliver an event again, or a call may fail, under redelivery.
RedeliverMaxFaults == 6
\* How many calls may fail, and how many hours may pass, over the replay cycles.
CycleMaxFaults == 1
CycleMaxClock == 6
\* The Analyzer alone: the larger retry count of its input events, and how many
\* calls may fail.
MaxAnalyzeRetry == 5
AnalyzeMaxFaults == 1
\* How many publishes and deletes may fail while one message is received again and again.
RereceiveMaxFaults == 4

---------------------------------------------------------------------------
\* The Monitor's world.

\* The two triggers of the Monitor; their invocations may overlap in time.
Invocations == {"schedule", "alarm"}

\* Queue URLs returned by ListQueues, in order; each name is a sequence of tokens.
QueueOrder == <<"orders-dlq", "billing-dlq", "orders">>

QueueTokens(q) ==
    CASE q = "orders-dlq"  -> <<"orders", "-dlq">>
      [] q = "billing-dlq" -> <<"billing", "-dlq">>
      [] OTHER             -> <<"orders">>

\* DEFAULT_CONFIG.queueNamePattern
queueNamePattern == "-dlq"

\* DEFAULT_CONFIG.maxMessages
maxMessages == 10

\* String.prototype.includes on the tokenised name.
Includes(q, pattern) == \E i \in 1..Len(QueueTokens(q)) : QueueTokens(q)[i] = pattern

Msgs == {"m1", "m2"}
MsgOrder == <<"m1", "m2">>
QueueOf(m) == IF m = "m1" THEN "orders-dlq" ELSE "billing-dlq"

\* The queue a DLQ takes its messages from (the queue's redrive policy).
OriginalQueue(q) == IF q = "orders-dlq" THEN "orders" ELSE "billing"

\* getResult.Item is undefined
NoItem == -1
\* a local that holds no value yet
Unset == -2

HARD_CAP_LIMIT == 3

Min(a, b) == IF a < b THEN a ELSE b
Max(a, b) == IF a > b THEN a ELSE b

---------------------------------------------------------------------------
\* Pure parts of the Monitor.

\* discoverDLQs: the URLs that include the pattern; [] when ListQueues fails.
DiscoverDLQs(ok) ==
    IF ok THEN SelectSeq(QueueOrder, LAMBDA u : Includes(u, queueNamePattern))
    ELSE <<>>

\* A pollQueue whose catch block rethrows.
PollQueueRethrows == [messages |-> <<>>, rethrow |-> TRUE]

\* What the catch block of pollQueue does with a failed receive.
PollQueueOnError == [messages |-> <<>>, rethrow |-> FALSE]

\* What the catch block of discoverDLQs does with a failed ListQueues.
DiscoverOnError == [queueUrls |-> DiscoverDLQs(FALSE), rethrow |-> FALSE]

\* What the catch block of processMessages does with a failed message.
ProcessOnError == [failedInc |-> 1, rethrow |-> FALSE]

\* What the catch block of deleteMessage does with a failed delete.
DeleteOnError == [rethrow |-> FALSE]

\* A forwardToEventBridge that swallows a failed PutEvents.
ForwardSwallows == [rethrow |-> FALSE]

\* What forwardToEventBridge does with a failed PutEvents: log and rethrow.
ForwardOnError == [rethrow |-> TRUE]

\* checkAndRecordMessage, duplicate branch.
DuplicateResult(item) == [isDuplicate |-> TRUE, retryCount |-> item + 1]

\* checkAndRecordMessage, first-time branch.
NewResult == [isDuplicate |-> FALSE, retryCount |-> 0]

\* A catch branch that fails closed: reports a duplicate beyond the limit.
FailClosedResult == [isDuplicate |-> TRUE, retryCount |-> HARD_CAP_LIMIT + 1]

\* checkAndRecordMessage, catch branch: assume not a duplicate.
FailOpenResult == [isDuplicate |-> FALSE, retryCount |-> 0]

NoDedup == [isDuplicate |-> FALSE, retryCount |-> Unset]

\* A retry-limit test that already drops at the limit.
ExceedsRetryLimitAtCap(d) == d.isDuplicate /\ d.retryCount >= HARD_CAP_LIMIT

\* processMessages: "dedupResult.isDuplicate && dedupResult.retryCount > 3".
ExceedsRetryLimit(d) == d.isDuplicate /\ d.retryCount > HARD_CAP_LIMIT

\* getRetryCount: (result.Item?.retryCount) || 0.
GetRetryCount(item) == IF item = NoItem THEN 0 ELSE item

\* countSimilarFailures: entries of the queue seen in the last hour, minus this one.
CountSimilarFailures(led, q) ==
    Max(0, Cardinality({m \in Msgs : QueueOf(m) = q /\ led[m] # NoItem}) - 1)

\* The messages a ReceiveMessage on q returns: the visible ones, at most maxMessages.
VisibleSeq(d, q) ==
    LET s == SelectSeq(MsgOrder, LAMBDA m : QueueOf(m) = q /\ d[m] = "visible")
    IN SubSeq(s, 1, Min(Len(s), maxMessages))

SeqToSet(s) == {s[i] : i \in 1..Len(s)}

\* inferServiceFromQueue: the queue name without its -dlq/_dlq suffix.
InferServiceFromQueue(q) ==
    LET t == QueueTokens(q)
    IN IF t[Len(t)] \in {"-dlq", "_dlq"} THEN SubSeq(t, 1, Len(t) - 1) ELSE t

\* getRecentDeployments: the MVP returns the empty list.
GetRecentDeployments == <<>>

\* inferErrorType: the first of the type patterns the error message matches.
InferErrorType(text) ==
    IF text \cap {"Network Timeout", "HTTP 504 Gateway Timeout"} # {} THEN "TimeoutError"
    ELSE IF text \cap {"Schema Validation", "Invalid Argument"} # {} THEN "ValidationError"
    ELSE IF text \cap {"HTTP 429 Rate Limit", "HTTP 503 Service Unavailable"} # {}
         THEN "HTTPError"
    ELSE "UnknownError"

\* enrichMessage: the enriched message built for m. The body is kept as the set
\* of names of the pattern rules its error message matches.
Enriched(m, text, rc, similar) ==
    [messageId |-> m, sourceQueue |-> QueueOf(m), body |-> text, retryCount |-> rc,
     similarFailuresLast1h |-> similar, recentDeployments |-> GetRecentDeployments,
     errorType |-> InferErrorType(text),
     errorMessage |-> text, affectedService |-> InferServiceFromQueue(QueueOf(m))]

---------------------------------------------------------------------------
\* Monitor invocation state.

NoLog ==
    [item |-> Unset, dedup |-> NoDedup, ledgerFailed |-> FALSE, enrichedRc |-> Unset,
     similar |-> Unset, pub |-> "none", del |-> "none", capped |-> FALSE, done |-> FALSE]

MonIdle ==
    [pc |-> "idle", outcome |-> "none", queueUrls |-> <<>>, pollIdx |-> 0,
     polled |-> {}, pollFailed |-> {}, discoverFailed |-> FALSE,
     batch |-> <<>>, idx |-> 0,
     processed |-> 0, failed |-> 0, forwarded |-> 0,
     log |-> [m \in Msgs |-> NoLog]]

Cur(p) == mon[p].batch[mon[p].idx]

\* handler: the outer catch logs and rethrows.
Throw(r) == [r EXCEPT !.pc = "idle", !.outcome = "threw"]

\* handler: normal return.
Return(r) == [r EXCEPT !.pc = "idle", !.outcome = "returned"]

\* processMessages: the for loop moves to the next message, or returns the counters.
NextMessage(r) ==
    LET r1 == [r EXCEPT !.log[r.batch[r.idx]].done = TRUE]
    IN IF r.idx < Len(r.batch)
       THEN [r1 EXCEPT !.idx = @ + 1, !.pc = "dedupGet"]
       ELSE Return(r1)

\* handler: after discovery, return when no DLQ was found, else poll.
AfterDiscover(r, urls) ==
    IF Len(urls) = 0
    THEN Return(r)
    ELSE [r EXCEPT !.queueUrls = urls, !.pollIdx = 1, !.pc = "poll"]

\* handler: after one poll; after the last one, return when nothing was received.
AfterPoll(r, received) ==
    LET r1 == [r EXCEPT !.batch = @ \o received,
                        !.polled = @ \cup {r.queueUrls[r.pollIdx]}]
    IN IF r.pollIdx < Len(r.queueUrls)
       THEN [r1 EXCEPT !.pollIdx = @ + 1]
       ELSE IF Len(r1.batch) = 0
            THEN Return(r1)
            ELSE [r1 EXCEPT !.idx = 1, !.pc = "dedupGet"]

\* A processMessages that counts the forward and moves on without deleting.
AfterForwardNoDelete(r) == NextMessage([r EXCEPT !.forwarded = @ + 1])

\* processMessages: after the forward, count it and delete the source message.
AfterForward(r) == [r EXCEPT !.forwarded = @ + 1, !.pc = "delete"]

\* processMessages: the catch block counts the message as failed and goes on.
FailMessage(r) ==
    IF ProcessOnError.rethrow
    THEN Throw(r)
    ELSE NextMessage([r EXCEPT !.failed = @ + ProcessOnError.failedInc])

CanFail == faults > 0

---------------------------------------------------------------------------
\* Monitor actions.

\* The schedule or the alarm invokes handler.
Invoke(p) ==
    /\ p \in triggers
    /\ mon[p].pc = "idle"
    /\ mon' = [mon EXCEPT ![p] = [MonIdle EXCEPT !.pc = "discover", !.outcome = "running"]]
    /\ UNCHANGED <<restVars, triggers, dlq, body, ledger, enrichedBus, faults, downstream>>

\* discoverDLQs: ListQueues succeeds.
DiscoverOk(p) ==
    /\ mon[p].pc = "discover"
    /\ mon' = [mon EXCEPT ![p] = AfterDiscover(@, DiscoverDLQs(TRUE))]
    /\ UNCHANGED <<restVars, triggers, dlq, body, ledger, enrichedBus, faults, downstream>>

\* discoverDLQs: ListQueues fails.
DiscoverFail(p) ==
    /\ mon[p].pc = "discover"
    /\ CanFail
    /\ faults' = faults - 1
    /\ mon' = [mon EXCEPT ![p] =
                 IF DiscoverOnError.rethrow
                 THEN Throw([@ EXCEPT !.discoverFailed = TRUE])
                 ELSE AfterDiscover([@ EXCEPT !.discoverFailed = TRUE],
                                    DiscoverOnError.queueUrls)]
    /\ UNCHANGED <<restVars, triggers, dlq, body, ledger, enrichedBus, downstream>>

\* pollQueue: ReceiveMessage succeeds; the messages received become invisible.
PollOk(p) ==
    /\ mon[p].pc = "poll"
    /\ LET q == mon[p].queueUrls[mon[p].pollIdx]
           received == VisibleSeq(dlq, q)
       IN /\ dlq' = [m \in Msgs |-> IF m \in SeqToSet(received) THEN "inflight" ELSE dlq[m]]
          /\ mon' = [mon EXCEPT ![p] = AfterPoll(@, received)]
    /\ UNCHANGED <<restVars, triggers, body, ledger, enrichedBus, faults, downstream>>

\* pollQueue: ReceiveMessage fails.
PollFail(p) ==
    /\ mon[p].pc = "poll"
    /\ CanFail
    /\ faults' = faults - 1
    /\ LET q == mon[p].queueUrls[mon[p].pollIdx]
           r == [mon[p] EXCEPT !.pollFailed = @ \cup {q}]
       IN mon' = [mon EXCEPT ![p] =
                    IF PollQueueOnError.rethrow
                    THEN Throw(r)
                    ELSE AfterPoll(r, PollQueueOnError.messages)]
    /\ UNCHANGED <<restVars, triggers, dlq, body, ledger, enrichedBus, downstream>>

\* checkAndRecordMessage: the GetCommand succeeds.
DedupGetOk(p) ==
    /\ mon[p].pc = "dedupGet"
    /\ mon' = [mon EXCEPT ![p].log[Cur(p)].item = ledger[Cur(p)],
                          ![p].pc = "dedupPut"]
    /\ UNCHANGED <<restVars, triggers, dlq, body, ledger, enrichedBus, faults, downstream>>

\* checkAndRecordMessage: the GetCommand fails; fail open.
DedupGetFail(p) ==
    /\ mon[p].pc = "dedupGet"
    /\ CanFail
    /\ faults' = faults - 1
    /\ mon' = [mon EXCEPT ![p].log[Cur(p)].dedup = FailOpenResult,
                          ![p].log[Cur(p)].ledgerFailed = TRUE,
                          ![p].pc = IF ExceedsRetryLimit(FailOpenResult)
                                    THEN "capDelete" ELSE "enrich"]
    /\ UNCHANGED <<restVars, triggers, dlq, body, ledger, enrichedBus, downstream>>

\* checkAndRecordMessage: the PutCommand succeeds; then the retry-limit test.
DedupPutOk(p) ==
    /\ mon[p].pc = "dedupPut"
    /\ LET m == Cur(p)
           item == mon[p].log[m].item
           res == IF item # NoItem THEN DuplicateResult(item) ELSE NewResult
       IN /\ res.retryCount <= MaxRetryCount
          /\ ledger' = [ledger EXCEPT ![m] = res.retryCount]
          /\ hist' = [hist EXCEPT ![m].checks = @ + 1]
          /\ mon' = [mon EXCEPT ![p].log[m].dedup = res,
                                ![p].pc = IF ExceedsRetryLimit(res)
                                          THEN "capDelete" ELSE "enrich"]
    /\ UNCHANGED <<arrivals, config, ana, hashed, triggers, dlq, body, enrichedBus, faults, downstream>>

\* checkAndRecordMessage: the PutCommand fails; fail open.
DedupPutFail(p) ==
    /\ mon[p].pc = "dedupPut"
    /\ CanFail
    /\ faults' = faults - 1
    /\ mon' = [mon EXCEPT ![p].log[Cur(p)].dedup = FailOpenResult,
                          ![p].log[Cur(p)].ledgerFailed = TRUE,
                          ![p].pc = IF ExceedsRetryLimit(FailOpenResult)
                                    THEN "capDelete" ELSE "enrich"]
    /\ UNCHANGED <<restVars, triggers, dlq, body, ledger, enrichedBus, downstream>>

\* processMessages: retry limit exceeded; the delete succeeds.
CapDeleteOk(p) ==
    /\ mon[p].pc = "capDelete"
    /\ dlq' = [dlq EXCEPT ![Cur(p)] = "deleted"]
    /\ mon' = [mon EXCEPT ![p] =
                 NextMessage([@ EXCEPT !.log[Cur(p)].capped = TRUE,
                                       !.log[Cur(p)].del = "ok",
                                       !.processed = @ + 1])]
    /\ UNCHANGED <<restVars, triggers, body, ledger, enrichedBus, faults, downstream>>

\* processMessages: retry limit exceeded; the delete fails and deleteMessage swallows it.
CapDeleteFail(p) ==
    /\ mon[p].pc = "capDelete"
    /\ CanFail
    /\ faults' = faults - 1
    /\ LET r == [mon[p] EXCEPT !.log[Cur(p)].capped = TRUE, !.log[Cur(p)].del = "fail"]
       IN mon' = [mon EXCEPT ![p] =
                    IF DeleteOnError.rethrow
                    THEN FailMessage(r)
                    ELSE NextMessage([r EXCEPT !.processed = @ + 1])]
    /\ UNCHANGED <<restVars, triggers, dlq, body, ledger, enrichedBus, downstream>>

\* enrichMessage: the ledger lookups succeed.
EnrichOk(p) ==
    /\ mon[p].pc = "enrich"
    /\ mon' = [mon EXCEPT ![p].log[Cur(p)].enrichedRc = GetRetryCount(ledger[Cur(p)]),
                          ![p].log[Cur(p)].similar =
                              CountSimilarFailures(ledger, QueueOf(Cur(p))),
                          ![p].pc = "forward"]
    /\ UNCHANGED <<restVars, triggers, dlq, body, ledger, enrichedBus, faults, downstream>>

\* enrichMessage: the ledger lookups fail; getRetryCount and countSimilarFailures return 0.
EnrichLookupFail(p) ==
    /\ mon[p].pc = "enrich"
    /\ CanFail
    /\ faults' = faults - 1
    /\ mon' = [mon EXCEPT ![p].log[Cur(p)].enrichedRc = 0,
                          ![p].log[Cur(p)].similar = 0,
                          ![p].pc = "forward"]
    /\ UNCHANGED <<restVars, triggers, dlq, body, ledger, enrichedBus, downstream>>

\* forwardToEventBridge: PutEvents succeeds.
ForwardOk(p) ==
    /\ mon[p].pc = "forward"
    /\ LET m == Cur(p)
       IN /\ enrichedBus' = enrichedBus \cup
                 {Enriched(m, body[m], mon[p].log[m].enrichedRc, mon[p].log[m].similar)}
          /\ hist' = [hist EXCEPT ![m].published = @ + 1]
          /\ mon' = [mon EXCEPT ![p] = AfterForward([@ EXCEPT !.log[m].pub = "ok"])]
    /\ UNCHANGED <<arrivals, config, ana, hashed, triggers, dlq, body, ledger, faults, downstream>>

\* forwardToEventBridge: PutEvents fails; the message is not deleted.
ForwardFail(p) ==
    /\ mon[p].pc = "forward"
    /\ CanFail
    /\ faults' = faults - 1
    /\ LET r == [mon[p] EXCEPT !.log[Cur(p)].pub = "fail"]
       IN mon' = [mon EXCEPT ![p] =
                    IF ForwardOnError.rethrow
                    THEN FailMessage(r)
                    ELSE AfterForward(r)]
    /\ UNCHANGED <<restVars, triggers, dlq, body, ledger, enrichedBus, downstream>>

\* deleteMessage after a successful forward: the delete succeeds.
DeleteOk(p) ==
    /\ mon[p].pc = "delete"
    /\ dlq' = [dlq EXCEPT ![Cur(p)] = "deleted"]
    /\ mon' = [mon EXCEPT ![p] =
                 NextMessage([@ EXCEPT !.log[Cur(p)].del = "ok", !.processed = @ + 1])]
    /\ UNCHANGED <<restVars, triggers, body, ledger, enrichedBus, faults, downstream>>

\* deleteMessage after a successful forward: the delete fails and is swallowed.
DeleteFail(p) ==
    /\ mon[p].pc = "delete"
    /\ CanFail
    /\ faults' = faults - 1
    /\ LET r == [mon[p] EXCEPT !.log[Cur(p)].del = "fail"]
       IN mon' = [mon EXCEPT ![p] =
                    IF DeleteOnError.rethrow
                    THEN FailMessage(r)
                    ELSE NextMessage([r EXCEPT !.processed = @ + 1])]
    /\ UNCHANGED <<restVars, triggers, dlq, body, ledger, enrichedBus, downstream>>

\* The queue service: the visibility timeout of a received message runs out.
VisibilityTimeout(m) ==
    /\ dlq[m] = "inflight"
    /\ dlq' = [dlq EXCEPT ![m] = "visible"]
    /\ UNCHANGED <<restVars, triggers, mon, body, ledger, enrichedBus, faults, downstream>>

---------------------------------------------------------------------------
\* The Analyzer: classification.

Categories == {"TRANSIENT", "POISON_PILL", "SYSTEMIC"}

\* The value of an attribute that is not there.
Undefined == "undefined"

\* No item under a key of the record store.
NoEntry == [absent |-> TRUE]

\* ALL_ERROR_PATTERNS, in table order; confidences in hundredths.
ErrorPatterns ==
    << [name |-> "Network Timeout",      category |-> "TRANSIENT",   confidence |-> 96],
       [name |-> "Connection Refused",   category |-> "TRANSIENT",   confidence |-> 94],
       [name |-> "HTTP 429 Rate Limit",  category |-> "TRANSIENT",   confidence |-> 98],
       [name |-> "HTTP 503 Service Unavailable", category |-> "TRANSIENT", confidence |-> 95],
       [name |-> "HTTP 504 Gateway Timeout",     category |-> "TRANSIENT", confidence |-> 95],
       [name |-> "AWS Throttling",       category |-> "TRANSIENT",   confidence |-> 97],
       [name |-> "DNS Resolution Failure", category |-> "TRANSIENT", confidence |-> 93],
       [name |-> "Connection Reset",     category |-> "TRANSIENT",   confidence |-> 92],
       [name |-> "Null Pointer",         category |-> "POISON_PILL", confidence |-> 89],
       [name |-> "JSON Parse Error",     category |-> "POISON_PILL", confidence |-> 91],
       [name |-> "Schema Validation",    category |-> "POISON_PILL", confidence |-> 88],
       [name |-> "Type Mismatch",        category |-> "POISON_PILL", confidence |-> 87],
       [name |-> "Division by Zero",     category |-> "POISON_PILL", confidence |-> 95],
       [name |-> "Invalid Argument",     category |-> "POISON_PILL", confidence |-> 86] >>

\* A matcher that gives the last rule whose pattern matches instead of the first.
MatchLastPattern(text) ==
    LET hits == {i \in 1..Len(ErrorPatterns) : ErrorPatterns[i].name \in text}
    IN IF hits = {} THEN 0 ELSE CHOOSE i \in hits : \A j \in hits : i >= j

\* matchErrorPattern: the index of the first rule whose pattern matches, 0 for null.
MatchErrorPattern(text) ==
    LET hits == {i \in 1..Len(ErrorPatterns) : ErrorPatterns[i].name \in text}
    IN IF hits = {} THEN 0 ELSE CHOOSE i \in hits : \A j \in hits : i <= j

\* The default of the CONFIDENCE_THRESHOLD environment variable, in hundredths.
CONFIDENCE_THRESHOLD == 85
CACHE_TTL_HOURS == 1
SYSTEMIC_THRESHOLD == 10

\* A heuristic stage that consults the pattern table before the deployment correlation.
ApplyHeuristicsPatternFirst(msg) ==
    LET i == MatchErrorPattern(msg.errorMessage)
    IN IF i # 0
       THEN [matched |-> TRUE, category |-> ErrorPatterns[i].category,
             confidence |-> ErrorPatterns[i].confidence,
             ruleName |-> ErrorPatterns[i].name]
       ELSE IF msg.similarFailuresLast1h >= SYSTEMIC_THRESHOLD
               /\ Len(msg.recentDeployments) > 0
       THEN [matched |-> TRUE, category |-> "SYSTEMIC", confidence |-> 92,
             ruleName |-> "Deployment Correlation"]
       ELSE [matched |-> FALSE, category |-> Undefined, confidence |-> 0,
             ruleName |-> "none"]

\* applyHeuristics: deployment correlation first, then the pattern table.
ApplyHeuristics(msg) ==
    IF msg.similarFailuresLast1h >= SYSTEMIC_THRESHOLD /\ Len(msg.recentDeployments) > 0
    THEN [matched |-> TRUE, category |-> "SYSTEMIC", confidence |-> 92,
          ruleName |-> "Deployment Correlation"]
    ELSE LET i == MatchErrorPattern(msg.errorMessage)
         IN IF i # 0
            THEN [matched |-> TRUE, category |-> ErrorPatterns[i].category,
                  confidence |-> ErrorPatterns[i].confidence,
                  ruleName |-> ErrorPatterns[i].name]
            ELSE [matched |-> FALSE, category |-> Undefined, confidence |-> 0,
                  ruleName |-> "none"]

RECURSIVE Pow2(_)
Pow2(n) == IF n <= 0 THEN 1 ELSE 2 * Pow2(n - 1)

\* getRecommendedAction.
GetRecommendedAction(category, retryCount) ==
    CASE category = "TRANSIENT" ->
           [action |-> "REPLAY", retryDelaySeconds |-> Min(30 * Pow2(retryCount), 900),
            maxRetries |-> 3, escalationSeverity |-> "none", humanReviewRequired |-> FALSE]
      [] category = "POISON_PILL" ->
           [action |-> "ARCHIVE", retryDelaySeconds |-> Unset, maxRetries |-> Unset,
            escalationSeverity |-> "none", humanReviewRequired |-> TRUE]
      [] category = "SYSTEMIC" ->
           [action |-> "ESCALATE", retryDelaySeconds |-> Unset, maxRetries |-> Unset,
            escalationSeverity |-> "P1", humanReviewRequired |-> TRUE]
      [] OTHER ->
           [action |-> "ESCALATE", retryDelaySeconds |-> Unset, maxRetries |-> Unset,
            escalationSeverity |-> "P2", humanReviewRequired |-> TRUE]

\* generateSemanticHash: the hashed components, normalized message and service.
Fingerprint(msg) == <<msg.errorMessage, msg.affectedService>>

\* The attributes a GetCommand returns under checkCache's ProjectionExpression.
ProjectionAttrs == {"classification", "confidence", "reasoning", "recommendedAction", "metadata"}

Project(item) == [a \in (DOMAIN item) \cap ProjectionAttrs |-> item[a]]

\* Reading an attribute of an item (undefined when the item lacks it).
Attr(item, a) == IF a \in DOMAIN item THEN item[a] ELSE Undefined

\* A checkCache whose catch block rethrows.
CheckCacheRethrows == [rethrow |-> TRUE]

\* checkCache's catch block: log and return null, "fail open".
CheckCacheOnError == [rethrow |-> FALSE]

\* checkCache: null on a failed read, a missing item or an expired one.
CheckCache(c, h, readOk, now) ==
    IF ~readOk \/ c[h] = NoEntry
    THEN NoEntry
    ELSE LET item == Project(c[h])
         IN IF now - item.metadata.cachedAt > CACHE_TTL_HOURS THEN NoEntry ELSE item

\* cacheResult: the item put under cache#<hash>; a failed write is swallowed.
CacheResult(c, h, result, writeOk, now) ==
    IF writeOk
    THEN [c EXCEPT ![h] =
            [semanticHash |-> h, category |-> result.category,
             confidence |-> result.confidence, reasoning |-> result.reasoning,
             recommendedAction |-> result.recommendedAction,
             metadata |-> [llmModel |-> result.metadata.llmModel,
                           cacheHit |-> result.metadata.cacheHit, cachedAt |-> now]]]
    ELSE c

\* A JSON number, or a JSON value of another type.
Number(v) == [type |-> "number", value |-> v]
NotANumber == [type |-> "string", value |-> 0]

Json(category, confidence, reasoning) ==
    [kind |-> "json", category |-> category, confidence |-> confidence,
     reasoning |-> reasoning]

\* What a call to the LLM may come to: the client throws (API error, timeout), the
\* reply holds no JSON object, or it holds one with these three fields: all
\* three as asked for, or one of them not.
LlmOutcomes ==
    {[kind |-> "throws"], [kind |-> "nojson"]} \cup
    {Json(c, Number(90), "llm") : c \in Categories \cup {"UNKNOWN"}} \cup
    {Json("TRANSIENT", k, "llm") : k \in {Number(150), Number(-10), NotANumber}} \cup
    {Json("TRANSIENT", Number(90), " ")}

\* A validation that lets every reply through, clamping nothing and checking nothing.
ValidateNothing(classification) == TRUE

\* LLMClient.validateClassification: TRUE when it does not throw.
ValidateClassification(classification) ==
    /\ classification.category \in {"TRANSIENT", "POISON_PILL", "SYSTEMIC"}
    /\ classification.confidence.type = "number"
    /\ classification.confidence.value >= 0
    /\ classification.confidence.value <= 100
    /\ classification.reasoning \notin {"", " "}

\* LLMClient.classifyFailure: the classification, or a throw (the catch rethrows).
ClassifyFailure(llm) ==
    IF llm.kind # "json"
    THEN [threw |-> TRUE]
    ELSE LET classification == [category |-> llm.category, confidence |-> llm.confidence,
                                reasoning |-> llm.reasoning]
         IN IF ValidateClassification(classification)
            THEN [threw |-> FALSE, classification |-> classification]
            ELSE [threw |-> TRUE]

\* A catch block that takes the optimistic view of a failed LLM call.
FallbackReplay ==
    [category |-> "TRANSIENT", confidence |-> 60,
     reasoning |-> "LLM classification failed, requires human review",
     llmModel |-> "fallback"]

\* classify's catch block: the conservative classification.
Fallback ==
    [category |-> "SYSTEMIC", confidence |-> 60,
     reasoning |-> "LLM classification failed, requires human review",
     llmModel |-> "fallback"]

\* A catch block that caches the fallback like any other result.
CatchCachesFallback == [cacheResult |-> TRUE]

\* classify's catch block returns the fallback without calling cacheResult.
CatchOnReturn == [cacheResult |-> FALSE]

\* No call to the LLM was made.
NoReply == [kind |-> "none"]

\* FailureClassifier.classify: cache, then heuristics, then the LLM, then the fallback.
\* Gives the result, the cache afterwards, the calls made and how many of them failed.
Classify(msg, c, now, readOk, llm, writeOk) ==
    LET h == Fingerprint(msg)
        cached == CheckCache(c, h, readOk, now)
        heur == ApplyHeuristics(msg)
        llmResult == ClassifyFailure(llm)
        readFailed == IF readOk THEN 0 ELSE 1
        writeFailed == IF writeOk THEN 0 ELSE 1
        threw == ~readOk /\ CheckCacheOnError.rethrow
        getFailed == IF readOk THEN {} ELSE {"cache.get"}
        putFailed == IF writeOk THEN {} ELSE {"cache.put"}
        Fresh(category, confidence, reasoning, model) ==
            [category |-> category, confidence |-> confidence, reasoning |-> reasoning,
             recommendedAction |-> GetRecommendedAction(category, msg.retryCount),
             metadata |-> [llmModel |-> model, cacheHit |-> FALSE]]
    IN IF cached # NoEntry
       THEN [result |-> [category |-> Attr(cached, "category"),
                         confidence |-> Attr(cached, "confidence"),
                         reasoning |-> Attr(cached, "reasoning"),
                         recommendedAction |-> Attr(cached, "recommendedAction"),
                         metadata |-> [llmModel |-> cached.metadata.llmModel,
                                       cacheHit |-> TRUE]],
             cache |-> c, calls |-> <<"cache.get">>, reply |-> NoReply,
             failures |-> readFailed, failed |-> getFailed, threw |-> threw]
       ELSE IF heur.matched /\ heur.confidence >= config.confidenceThreshold
       THEN LET res == Fresh(heur.category, heur.confidence, heur.ruleName, "heuristic")
            IN [result |-> res, cache |-> CacheResult(c, h, res, writeOk, now),
                calls |-> <<"cache.get", "cache.put">>, reply |-> NoReply,
                failures |-> readFailed + writeFailed,
                failed |-> getFailed \cup putFailed, threw |-> threw]
       ELSE IF ~llmResult.threw
       THEN LET res == Fresh(llmResult.classification.category,
                             llmResult.classification.confidence.value,
                             llmResult.classification.reasoning, "claude")
            IN [result |-> res, cache |-> CacheResult(c, h, res, writeOk, now),
                calls |-> <<"cache.get", "llm", "cache.put">>, reply |-> llm,
                failures |-> readFailed + writeFailed,
                failed |-> getFailed \cup putFailed, threw |-> threw]
       ELSE [result |-> Fresh(Fallback.category, Fallback.confidence,
                              Fallback.reasoning, Fallback.llmModel),
             cache |-> IF CatchOnReturn.cacheResult
                       THEN CacheResult(c, h, Fresh(Fallback.category, Fallback.confidence,
                                                    Fallback.reasoning, Fallback.llmModel),
                                        writeOk, now)
                       ELSE c, calls |-> <<"cache.get", "llm">>, reply |-> llm,
             failures |-> readFailed + 1, failed |-> getFailed \cup {"llm"},
             threw |-> threw]

\* mapActionToTaken.
MapActionToTaken(action) ==
    CASE action = "REPLAY" -> "REPLAYED"
      [] action = "ARCHIVE" -> "ARCHIVED"
      [] action = "ESCALATE" -> "ESCALATED"
      [] OTHER -> "ESCALATED"

\* routeToActionExecutor: detailTypeMap.
DetailType(action) ==
    CASE action = "REPLAY" -> "TransientFailure"
      [] action = "ARCHIVE" -> "PoisonPillFailure"
      [] action = "ESCALATE" -> "SystemicFailure"
      [] OTHER -> "UnknownFailure"

\* storeClassificationResult: the record put under the messageId.
Record(msg, result) ==
    [messageId |-> msg.messageId, sourceQueue |-> msg.sourceQueue,
     classification |-> result.category, confidence |-> result.confidence,
     llmReasoning |-> result.reasoning, llmModel |-> result.metadata.llmModel,
     actionTaken |-> MapActionToTaken(result.recommendedAction.action),
     recoveryOutcome |-> "PENDING", retryCount |-> msg.retryCount,
     semanticHash |-> Fingerprint(msg)]

\* routeToActionExecutor: the MessageClassified event.
Classified(msg, result) ==
    [message |-> msg, classification |-> result,
     detailType |-> DetailType(result.recommendedAction.action)]

---------------------------------------------------------------------------
\* Analyzer actions: one invocation of handler per delivery of an event.

\* The LLM's possible answers when classify gets as far as calling it.
Replies(msg, readOk) ==
    LET heur == ApplyHeuristics(msg)
    IN IF \/ CheckCache(cache, Fingerprint(msg), readOk, clock) # NoEntry
          \/ heur.matched /\ heur.confidence >= config.confidenceThreshold
       THEN {NoReply}
       ELSE LlmOutcomes

NoAna == [ran |-> FALSE]

\* What one invocation of the Analyzer's handler did.
AnaLog(e, r, outcome) ==
    [ran |-> TRUE, event |-> e, result |-> r.result, calls |-> r.calls,
     reply |-> r.reply, failed |-> r.failed, outcome |-> outcome]

\* handler: classify, store the record, publish; the event is acknowledged.
\* (Were classify to throw, the handler would rethrow and the bus redeliver.)
AnalyzeReturn(e) ==
    /\ e \in enrichedBus
    /\ \E readOk \in BOOLEAN, writeOk \in BOOLEAN : \E llm \in Replies(e, readOk) :
          LET r == Classify(e, cache, clock, readOk, llm, writeOk)
          IN /\ faults >= r.failures
             /\ faults' = faults - r.failures
             /\ IF r.threw
                THEN /\ ana' = AnaLog(e, r, "classify failed")
                     /\ UNCHANGED <<cache, records, classifiedBus, enrichedBus>>
                ELSE /\ cache' = r.cache
                     /\ records' = [records EXCEPT ![e.messageId] = Record(e, r.result)]
                     /\ classifiedBus' = classifiedBus \cup {Classified(e, r.result)}
                     /\ ana' = AnaLog(e, r, "returned")
                     /\ enrichedBus' = enrichedBus \ {e}
    /\ UNCHANGED <<arrivals, config, hashed, hist, monVars, clock, exeVars>>

\* A handler that logs a failed record write and goes on to publish.
StoreSwallows == [rethrow |-> FALSE]

\* handler: storeClassificationResult has no catch of its own; the handler's
\* catch logs and rethrows.
StoreOnError == [rethrow |-> TRUE]

\* handler: the record write fails; handler throws and the bus redelivers the event.
AnalyzeStoreFail(e) ==
    /\ e \in enrichedBus
    /\ \E readOk \in BOOLEAN, writeOk \in BOOLEAN : \E llm \in Replies(e, readOk) :
          LET r == Classify(e, cache, clock, readOk, llm, writeOk)
          IN /\ ~r.threw
             /\ faults >= r.failures + 1
             /\ faults' = faults - (r.failures + 1)
             /\ cache' = r.cache
             /\ ana' = AnaLog(e, r, "store failed")
             /\ IF StoreOnError.rethrow
                THEN UNCHANGED <<enrichedBus, classifiedBus>>
                ELSE /\ classifiedBus' = classifiedBus \cup {Classified(e, r.result)}
                     /\ enrichedBus' = enrichedBus \ {e}
    /\ UNCHANGED <<arrivals, config, hashed, hist, monVars, records, clock, exeVars>>

\* handler: the record is written, the publish fails; handler throws.
AnalyzeRouteFail(e) ==
    /\ e \in enrichedBus
    /\ \E readOk \in BOOLEAN, writeOk \in BOOLEAN : \E llm \in Replies(e, readOk) :
          LET r == Classify(e, cache, clock, readOk, llm, writeOk)
          IN /\ ~r.threw
             /\ faults >= r.failures + 1
             /\ faults' = faults - (r.failures + 1)
             /\ cache' = r.cache
             /\ records' = [records EXCEPT ![e.messageId] = Record(e, r.result)]
             /\ ana' = AnaLog(e, r, "publish failed")
    /\ UNCHANGED <<arrivals, config, hashed, hist, monVars, enrichedBus, clock, classifiedBus, exeVars>>

AnalyzerStep == \E e \in enrichedBus : AnalyzeReturn(e) \/ AnalyzeStoreFail(e) \/ AnalyzeRouteFail(e)

---------------------------------------------------------------------------
\* The Executor: the three handlers and the dispatch.

MIN_BACKOFF_SECONDS == 30
MAX_BACKOFF_SECONDS == 900
BACKOFF_MULTIPLIER == 2
MAX_RETRY_ATTEMPTS == 5

RECURSIVE Pow(_, _)
Pow(b, n) == IF n <= 0 THEN 1 ELSE b * Pow(b, n - 1)

\* calculateBackoffDelay.
CalculateBackoffDelay(retryCount) ==
    Min(MIN_BACKOFF_SECONDS * Pow(BACKOFF_MULTIPLIER, retryCount), MAX_BACKOFF_SECONDS)

\* A ceiling that still lets the attempt at the ceiling through.
MaxRetriesExceededStrict(retryCount) == retryCount > MAX_RETRY_ATTEMPTS

\* handleTransientFailure: the retry ceiling.
MaxRetriesExceeded(retryCount) == retryCount >= MAX_RETRY_ATTEMPTS

\* One call to a collaborator, as the Executor's handlers make them.
Call(api, ok, delay, retryCount, request) ==
    [api |-> api, ok |-> ok, delay |-> delay, retryCount |-> retryCount,
     request |-> request]

NoDetails == [none |-> TRUE]

ActionResult(success, action, error, details) ==
    [success |-> success, action |-> action, error |-> error, details |-> details]

\* The queue the Executor is configured to replay into.
ORIGINAL_QUEUE_URL == "orders"

\* A delay that never looks at the recommended action.
RetryDelayBackoffOnly(recommended, retryCount) == CalculateBackoffDelay(retryCount)

\* handleTransientFailure: the delay, from the recommended action or the backoff
\* (a || b: a recommended delay of 0 counts as none).
RetryDelay(recommended, retryCount) ==
    IF recommended = Unset \/ recommended = 0
    THEN CalculateBackoffDelay(retryCount)
    ELSE recommended

\* handleTransientFailure: the SendMessageCommand.
SendMessageCommand(e, delaySeconds) ==
    [QueueUrl |-> ORIGINAL_QUEUE_URL,
     MessageBody |-> e.message.body,
     DelaySeconds |-> Min(delaySeconds, 900),
     retryCount |-> e.message.retryCount + 1,
     originalMessageId |-> e.message.messageId,
     classificationCategory |-> e.classification.category]

\* handleTransientFailure: ceiling check, then SendMessage to the original queue.
HandleTransientFailure(e, sendOk) ==
    LET retryCount == e.message.retryCount
        delaySeconds == RetryDelay(e.classification.recommendedAction.retryDelaySeconds,
                                   retryCount)
        command == SendMessageCommand(e, delaySeconds)
    IN IF MaxRetriesExceeded(retryCount)
       THEN [result |-> ActionResult(FALSE, "REPLAY", "Max retry attempts exceeded",
                                     NoDetails),
             calls |-> <<>>]
       ELSE [result |-> IF sendOk
                        THEN ActionResult(TRUE, "REPLAY", "none",
                                          [replayDelaySeconds |-> delaySeconds,
                                           targetQueue |-> ORIGINAL_QUEUE_URL])
                        ELSE ActionResult(FALSE, "REPLAY", "send failed", NoDetails),
             calls |-> <<Call("sqs.sendMessage", sendOk, command.DelaySeconds,
                              command.retryCount, command)>>]

HoursPerDay == 24

\* new Date().toISOString().split('T')[0]: the day the hour `now` falls in.
DateOf(now) == (StartHour + now) \div HoursPerDay

\* generateS3Key: poison-pills/{date}/{queue}/{messageId}.json.
GenerateS3Key(messageId, sourceQueue, now) ==
    <<"poison-pills", DateOf(now), sourceQueue, messageId>>

\* A handler that alerts whether or not the archive write went through.
HandlePoisonPillAlertsAnyway(e, s3Ok, snsOk, now) ==
    LET s3Key == GenerateS3Key(e.message.messageId, e.message.sourceQueue, now)
    IN [result |-> IF s3Ok /\ snsOk
                   THEN ActionResult(TRUE, "ARCHIVE", "none", [s3Key |-> s3Key])
                   ELSE ActionResult(FALSE, "ARCHIVE", "failed", NoDetails),
        calls |-> <<Call("s3.putObject", s3Ok, Unset, Unset, [Key |-> s3Key]),
                    Call("sns.publish", snsOk, Unset, Unset,
                         [message_id |-> e.message.messageId, s3Location |-> s3Key])>>]

\* handlePoisonPill: archive to S3, then alert through SNS.
HandlePoisonPill(e, s3Ok, snsOk, now) ==
    LET s3Key == GenerateS3Key(e.message.messageId, e.message.sourceQueue, now)
        put(ok) == Call("s3.putObject", ok, Unset, Unset, [Key |-> s3Key])
        publish(ok) == Call("sns.publish", ok, Unset, Unset,
                            [message_id |-> e.message.messageId, s3Location |-> s3Key])
    IN IF ~s3Ok
       THEN [result |-> ActionResult(FALSE, "ARCHIVE", "archive failed", NoDetails),
             calls |-> <<put(FALSE)>>]
       ELSE [result |-> IF snsOk
                        THEN ActionResult(TRUE, "ARCHIVE", "none", [s3Key |-> s3Key])
                        ELSE ActionResult(FALSE, "ARCHIVE", "alert failed", NoDetails),
             calls |-> <<put(TRUE), publish(snsOk)>>]

\* A key that tells the messages of one queue and error type apart.
DedupKeyPerMessage(e) ==
    <<"queuemint", "systemic", e.message.sourceQueue, e.message.errorType,
      e.message.messageId>>

\* handleSystemicFailure: dedup_key.
DedupKey(e) == <<"queuemint", "systemic", e.message.sourceQueue, e.message.errorType>>

\* PAGERDUTY_SEVERITIES.
PAGERDUTY_SEVERITIES ==
    [s \in {"P1", "P2", "P3"} |->
        CASE s = "P1" -> "critical" [] s = "P2" -> "error" [] OTHER -> "warning"]

\* A mapping that pages every escalation at the default severity.
MapSeverityDefault(severity) == "error"

\* mapSeverity: the PagerDuty severity of an escalation level, 'error' for none.
MapSeverity(severity) ==
    IF severity \notin DOMAIN PAGERDUTY_SEVERITIES THEN "error"
    ELSE PAGERDUTY_SEVERITIES[severity]

\* handleSystemicFailure: one PagerDuty trigger event; the API echoes the key.
HandleSystemicFailure(e, pagerOk) ==
    LET event == [dedup_key |-> DedupKey(e),
                  severity |-> MapSeverity(e.classification.recommendedAction.escalationSeverity)]
        response == [dedup_key |-> event.dedup_key]
    IN [result |-> IF pagerOk
                   THEN ActionResult(TRUE, "ESCALATE", "none",
                                     [pagerDutyIncidentId |-> response.dedup_key])
                   ELSE ActionResult(FALSE, "ESCALATE", "PagerDuty API error", NoDetails),
        calls |-> <<Call("pagerduty.enqueue", pagerOk, Unset, Unset, event)>>]

\* A switch whose default branch escalates.
DispatchDefaultEscalate(category) ==
    CASE category = "TRANSIENT" -> "handleTransientFailure"
      [] category = "POISON_PILL" -> "handlePoisonPill"
      [] OTHER -> "handleSystemicFailure"

\* handler: the switch on classification.category.
Dispatch(category) ==
    CASE category = "TRANSIENT" -> "handleTransientFailure"
      [] category = "POISON_PILL" -> "handlePoisonPill"
      [] category = "SYSTEMIC" -> "handleSystemicFailure"
      [] OTHER -> "none"

\* A handler that acknowledges whatever the result.
ExecutorNeverThrows(result) == FALSE

\* handler: a result that is not a success is turned into a throw.
ExecutorThrows(result) == ~result.success

\* The collaborators' answers during one Executor invocation.
Outcomes == [sqs : BOOLEAN, s3 : BOOLEAN, sns : BOOLEAN, pager : BOOLEAN]

\* handler: one whole invocation on event e at hour now, under the collaborators'
\* answers o.
Execute(e, o, now) ==
    LET h == Dispatch(e.classification.category)
        r == CASE h = "handleTransientFailure" -> HandleTransientFailure(e, o.sqs)
               [] h = "handlePoisonPill" -> HandlePoisonPill(e, o.s3, o.sns, now)
               [] OTHER -> HandleSystemicFailure(e, o.pager)
    IN IF h = "none"
       THEN [ran |-> TRUE, event |-> e, handlers |-> <<>>, calls |-> <<>>,
             threw |-> TRUE, error |-> "Unknown classification category",
             details |-> NoDetails]
       ELSE [ran |-> TRUE, event |-> e, handlers |-> <<h>>, calls |-> r.calls,
             threw |-> ExecutorThrows(r.result), error |-> r.result.error,
             details |-> r.result.details]

\* Calls of one kind in a run, and those among them that were accepted.
CallsTo(calls, api) == {i \in DOMAIN calls : calls[i].api = api}
Accepted(calls, api) == Cardinality({i \in CallsTo(calls, api) : calls[i].ok})
FailedCalls(calls) == Cardinality({i \in DOMAIN calls : ~calls[i].ok})

\* A run in which every answer that was not used is the default one.
Canonical(run, o) ==
    /\ CallsTo(run.calls, "sqs.sendMessage") = {} => o.sqs
    /\ CallsTo(run.calls, "s3.putObject") = {} => o.s3
    /\ CallsTo(run.calls, "sns.publish") = {} => o.sns
    /\ CallsTo(run.calls, "pagerduty.enqueue") = {} => o.pager

NoEffects ==
    [sent |-> 0, archived |-> 0, alerted |-> 0, incidents |-> 0, objects |-> {},
     returned |-> 0]
NoRun == [ran |-> FALSE]

\* What the world has received for a message once a run's accepted calls are added.
Apply(eff, run) ==
    [sent |-> eff.sent + Accepted(run.calls, "sqs.sendMessage"),
     archived |-> eff.archived + Accepted(run.calls, "s3.putObject"),
     alerted |-> eff.alerted + Accepted(run.calls, "sns.publish"),
     incidents |-> eff.incidents + Accepted(run.calls, "pagerduty.enqueue"),
     objects |-> eff.objects \cup
                 {run.calls[i].request.Key :
                     i \in {j \in CallsTo(run.calls, "s3.putObject") : run.calls[j].ok}},
     returned |-> eff.returned]

\* handler returns: the event is done with.
ExecuteReturn(e) ==
    /\ e \in classifiedBus
    /\ \E o \in Outcomes :
          LET run == Execute(e, o, clock)
          IN /\ Canonical(run, o)
             /\ ~run.threw
             /\ faults >= FailedCalls(run.calls)
             /\ faults' = faults - FailedCalls(run.calls)
             /\ exec' = run
             /\ effects' = [effects EXCEPT ![e.message.messageId] = Apply(@, run)]
    /\ classifiedBus' = classifiedBus \ {e}
    /\ UNCHANGED <<restVars, monVars, enrichedBus, anaVars>>

\* handler throws: the event stays with the bus and is delivered again.
ExecuteThrow(e) ==
    /\ e \in classifiedBus
    /\ \E o \in Outcomes :
          LET run == Execute(e, o, clock)
          IN /\ Canonical(run, o)
             /\ run.threw
             /\ faults >= FailedCalls(run.calls)
             /\ faults' = faults - FailedCalls(run.calls)
             /\ exec' = run
             /\ effects' = [effects EXCEPT ![e.message.messageId] = Apply(@, run)]
    /\ UNCHANGED <<restVars, monVars, enrichedBus, anaVars, classifiedBus>>

---------------------------------------------------------------------------
\* Initial values shared by the specifications.

Texts == {{"Network Timeout"}, {"Null Pointer"}, {}}
\* Error messages for the Analyzer alone: one that matches two rules of the
\* table, one whose rule has the lowest confidence, one that matches none.
AnalyzeTexts ==
    {{"Network Timeout"}, {"Null Pointer", "Division by Zero"}, {"Invalid Argument"}, {}}
Services == {InferServiceFromQueue(QueueOf(m)) : m \in Msgs}
Fingerprints == (Texts \cup AnalyzeTexts) \X Services

DefaultBody == [m \in Msgs |-> IF m = "m1" THEN {"Network Timeout"} ELSE {"Null Pointer"}]

MonitorIdle ==
    /\ mon = [p \in Invocations |-> MonIdle]
    /\ enrichedBus = {}

\* The settings as deployed by default: every feature switched on.
DefaultConfig ==
    [confidenceThreshold |-> CONFIDENCE_THRESHOLD, autoReplayEnabled |-> TRUE,
     llmClassificationEnabled |-> TRUE]

NoHash == [done |-> FALSE]

\* No message is followed by its receipt handle.
NoneReceived == <<>>

\* Nothing has been checked or published yet.
NoHist == [m \in Msgs |-> [checks |-> 0, published |-> 0]]

DownstreamIdle ==
    /\ ana = NoAna
    /\ hashed = NoHash
    /\ hist = NoHist
    /\ arrivals = NoneReceived
    /\ cache = [f \in Fingerprints |-> NoEntry]
    /\ records = [m \in Msgs |-> NoEntry]
    /\ clock = 0
    /\ effects = [m \in Msgs |-> NoEffects]
    /\ exec = NoRun

---------------------------------------------------------------------------
\* The Monitor alone: one invocation over two queues, or two overlapping
\* invocations over one message.

Init ==
    /\ MonitorIdle
    /\ DownstreamIdle
    /\ config = DefaultConfig
    /\ classifiedBus = {}
    /\ body = DefaultBody
    /\ faults = MaxFaults
    /\ \/ /\ triggers = {"schedule"}
          /\ dlq = [m \in Msgs |-> "visible"]
          /\ ledger \in [Msgs -> NoItem..MaxInitRetry]
       \/ /\ triggers = Invocations
          /\ dlq = [m \in Msgs |-> IF m = "m1" THEN "visible" ELSE "none"]
          /\ ledger \in {l \in [Msgs -> NoItem..MaxInitRetry] : l["m2"] = NoItem}

MonitorStep(p) ==
    \/ Invoke(p)
    \/ DiscoverOk(p) \/ DiscoverFail(p)
    \/ PollOk(p) \/ PollFail(p)
    \/ DedupGetOk(p) \/ DedupGetFail(p)
    \/ DedupPutOk(p) \/ DedupPutFail(p)
    \/ CapDeleteOk(p) \/ CapDeleteFail(p)
    \/ EnrichOk(p) \/ EnrichLookupFail(p)
    \/ ForwardOk(p) \/ ForwardFail(p)
    \/ DeleteOk(p) \/ DeleteFail(p)

Next ==
    \/ \E p \in Invocations : MonitorStep(p)
    \/ \E m \in Msgs : VisibilityTimeout(m)

Spec == Init /\ [][Next]_vars

---------------------------------------------------------------------------
\* The Monitor on one message that is received again and again: the ledger is
\* empty at the start and stays available, publishes and deletes may fail, and
\* the two triggers may overlap.

RereceiveInit ==
    /\ MonitorIdle
    /\ DownstreamIdle
    /\ config = DefaultConfig
    /\ classifiedBus = {}
    /\ body = DefaultBody
    /\ faults = RereceiveMaxFaults
    /\ triggers = Invocations
    /\ dlq = [m \in Msgs |-> IF m = "m1" THEN "visible" ELSE "none"]
    /\ ledger = [m \in Msgs |-> NoItem]

RereceiveStep(p) ==
    \/ Invoke(p)
    \/ DiscoverOk(p)
    \/ PollOk(p)
    \/ DedupGetOk(p)
    \/ DedupPutOk(p)
    \/ CapDeleteOk(p) \/ CapDeleteFail(p)
    \/ EnrichOk(p)
    \/ ForwardOk(p) \/ ForwardFail(p)
    \/ DeleteOk(p) \/ DeleteFail(p)

RereceiveNext ==
    \/ \E p \in Invocations : RereceiveStep(p)
    \/ \E m \in Msgs : VisibilityTimeout(m)

RereceiveSpec == RereceiveInit /\ [][RereceiveNext]_vars

---------------------------------------------------------------------------
\* The Executor alone, on one MessageClassified event drawn from a bounded set.

ExecCategories == Categories \cup {"UNKNOWN", Undefined}

\* The delays an event may recommend: the Analyzer's, none, and values of its own.
ExecDelays(c, rc) ==
    IF c = "TRANSIENT"
    THEN {GetRecommendedAction(c, rc).retryDelaySeconds, Unset, 0, 45, 1200}
    ELSE {Unset}

ExecEvents ==
    UNION { { Classified(Enriched(m, DefaultBody[m], rc, 0),
                         [category |-> c, confidence |-> 90, reasoning |-> "input",
                          recommendedAction |->
                              [GetRecommendedAction(c, rc) EXCEPT !.retryDelaySeconds = d],
                          metadata |-> [llmModel |-> "input", cacheHit |-> FALSE]]) :
                d \in ExecDelays(c, rc) } :
            m \in Msgs, c \in ExecCategories, rc \in 0..MaxExecRetry }

\* The settings the Executor may run under: the auto-replay switch on or off.
ExecConfigs == {[DefaultConfig EXCEPT !.autoReplayEnabled = b] : b \in BOOLEAN}

ExecInit ==
    /\ MonitorIdle
    /\ DownstreamIdle
    /\ config \in ExecConfigs
    /\ triggers = {}
    /\ dlq = [m \in Msgs |-> "none"]
    /\ ledger = [m \in Msgs |-> NoItem]
    /\ body = DefaultBody
    /\ faults = MaxFaults
    /\ \E e \in ExecEvents : classifiedBus = {e}

ExecNext == \E e \in classifiedBus : ExecuteReturn(e) \/ ExecuteThrow(e)

ExecSpec == ExecInit /\ [][ExecNext]_vars

---------------------------------------------------------------------------
\* The Executor under redelivery: the bus may deliver an event again although
\* the handler returned, and time passes between deliveries.

\* handler returns, and the bus delivers the same event once more.
ExecuteDuplicate(e) ==
    /\ e \in classifiedBus
    /\ \E o \in Outcomes :
          LET run == Execute(e, o, clock)
          IN /\ Canonical(run, o)
             /\ ~run.threw
             /\ faults >= FailedCalls(run.calls) + 1
             /\ faults' = faults - (FailedCalls(run.calls) + 1)
             /\ exec' = run
             /\ effects' = [effects EXCEPT ![e.message.messageId] = Apply(@, run)]
    /\ UNCHANGED <<restVars, monVars, enrichedBus, anaVars, classifiedBus>>

\* Time passes (cache entries age, the date changes).
Tick ==
    /\ clock < MaxClock
    /\ clock' = clock + 1
    /\ UNCHANGED <<restVars, monVars, enrichedBus, faults, cache, records, classifiedBus, exeVars>>

RedeliverInit ==
    /\ MonitorIdle
    /\ DownstreamIdle
    /\ config = DefaultConfig
    /\ triggers = {}
    /\ dlq = [m \in Msgs |-> "none"]
    /\ ledger = [m \in Msgs |-> NoItem]
    /\ body = DefaultBody
    /\ faults = RedeliverMaxFaults
    /\ \E e \in ExecEvents : classifiedBus = {e}

RedeliverNext ==
    \/ ExecNext
    \/ \E e \in classifiedBus : ExecuteDuplicate(e)
    \/ Tick

RedeliverSpec == RedeliverInit /\ [][RedeliverNext]_vars

---------------------------------------------------------------------------
\* The Analyzer alone: one MessageEnriched event on the bus, or the two events of
\* a message the Monitor published twice (its delete failed in between); by the
\* second publish a deployment and more similar failures may have been seen.

AnalyzeEvents ==
    {[Enriched("m1", text, MaxAnalyzeRetry - 1, c[1]) EXCEPT !.recentDeployments = c[2]] :
        text \in AnalyzeTexts,
        c \in {<<SYSTEMIC_THRESHOLD, <<"v1">> >>, <<SYSTEMIC_THRESHOLD, <<>> >>,
                <<SYSTEMIC_THRESHOLD - 1, <<"v1">> >>}}

\* The thresholds an operator may configure, in hundredths.
AnalyzeConfigs ==
    {c \in [confidenceThreshold : {CONFIDENCE_THRESHOLD, 90, 95}, autoReplayEnabled : {TRUE},
            llmClassificationEnabled : BOOLEAN] :
        c.llmClassificationEnabled \/ c.confidenceThreshold = CONFIDENCE_THRESHOLD}

AnalyzeInit ==
    /\ mon = [p \in Invocations |-> MonIdle]
    /\ DownstreamIdle
    /\ config \in AnalyzeConfigs
    /\ classifiedBus = {}
    /\ triggers = {}
    /\ dlq = [m \in Msgs |-> "none"]
    /\ ledger = [m \in Msgs |-> NoItem]
    /\ body = DefaultBody
    /\ faults = AnalyzeMaxFaults
    /\ \E e \in AnalyzeEvents, twice \in BOOLEAN, spike \in BOOLEAN :
          enrichedBus = IF twice
                        THEN {e, [e EXCEPT !.retryCount = e.retryCount + 1,
                                           !.similarFailuresLast1h =
                                               IF spike THEN SYSTEMIC_THRESHOLD ELSE @,
                                           !.recentDeployments =
                                               IF spike THEN <<"v1">> ELSE @]}
                        ELSE {e}

AnalyzeNext ==
    \/ AnalyzerStep
    \/ Tick

AnalyzeSpec == AnalyzeInit /\ [][AnalyzeNext]_vars

---------------------------------------------------------------------------
\* The whole pipeline on fresh messages, with every step that can be taken
\* eventually taken and collaborators that fail only finitely often.

PipeInit ==
    /\ MonitorIdle
    /\ DownstreamIdle
    /\ config = DefaultConfig
    /\ classifiedBus = {}
    /\ triggers = {"schedule"}
    /\ dlq = [m \in Msgs |-> IF m = "m1" THEN "visible" ELSE "none"]
    /\ ledger \in {l \in [Msgs -> {NoItem, HARD_CAP_LIMIT}] : l["m2"] = NoItem}
    /\ body \in {b \in [Msgs -> Texts] : b["m2"] = DefaultBody["m2"]}
    /\ faults = PipeMaxFaults


PipeNext ==
    \/ MonitorStep("schedule")
    \/ \E m \in Msgs : VisibilityTimeout(m)
    \/ AnalyzerStep
    \/ ExecNext
    \/ Tick

\* The schedule keeps invoking the Monitor and a running invocation goes on; the
\* queue service makes undeleted messages visible again; the bus keeps
\* delivering an event to its Lambda until the Lambda returns.
PipeFairness ==
    /\ WF_vars(MonitorStep("schedule"))
    /\ \A m \in Msgs : WF_vars(VisibilityTimeout(m))
    /\ WF_vars(\E e \in enrichedBus : AnalyzeReturn(e))
    /\ WF_vars(\E e \in classifiedBus : ExecuteReturn(e))

PipeSpec == PipeInit /\ [][PipeNext]_vars /\ PipeFairness

---------------------------------------------------------------------------
\* The replay cycle: a replayed message fails again in its consumer and comes
\* back to the DLQ, where the pipeline picks it up again.

\* The queue service moves a replayed copy to the DLQ. SendMessage gave the copy
\* a MessageId of its own, so nothing is stored under its id yet: the slot m
\* stands for the newest copy, and effects[m] counts over all copies.
Redrive(m) ==
    /\ dlq[m] = "deleted"
    /\ effects[m].returned < effects[m].sent
    /\ \A p \in Invocations : mon[p].pc = "idle"
    /\ \A e \in enrichedBus : e.messageId # m
    /\ \A e \in classifiedBus : e.message.messageId # m
    /\ dlq' = [dlq EXCEPT ![m] = "visible"]
    /\ ledger' = [ledger EXCEPT ![m] = NoItem]
    /\ records' = [records EXCEPT ![m] = NoEntry]
    /\ effects' = [effects EXCEPT ![m].returned = @ + 1]
    /\ UNCHANGED <<restVars, triggers, mon, body, enrichedBus, faults, cache, clock,
                   classifiedBus, exec>>

\* Time passes between cycles.
CycleTick ==
    /\ clock < CycleMaxClock
    /\ clock' = clock + 1
    /\ UNCHANGED <<restVars, monVars, enrichedBus, faults, cache, records, classifiedBus, exeVars>>

CycleInit ==
    /\ MonitorIdle
    /\ DownstreamIdle
    /\ config = DefaultConfig
    /\ classifiedBus = {}
    /\ triggers = {"schedule"}
    /\ dlq = [m \in Msgs |-> IF m = "m1" THEN "visible" ELSE "none"]
    /\ ledger \in {l \in [Msgs -> {NoItem, HARD_CAP_LIMIT}] : l["m2"] = NoItem}
    /\ body = DefaultBody
    /\ faults = CycleMaxFaults

CycleNext ==
    \/ MonitorStep("schedule")
    \/ \E m \in Msgs : VisibilityTimeout(m)
    \/ AnalyzerStep
    \/ ExecNext
    \/ \E m \in Msgs : Redrive(m)
    \/ CycleTick

CycleSpec == CycleInit /\ [][CycleNext]_vars

---------------------------------------------------------------------------
\* The semantic hash. A line of text is a sequence of words separated by single
\* blanks; no expression of normalizeDynamicValues matches across a blank, so
\* every replacement acts word by word.

Uuid == "123e4567-e89b-12d3-a456-426614174000"
Timestamp == "2024-02-16T10:30:45Z"

\* The end of a line inside a text.
Newline == "\n"

\* String.toLowerCase and String.toUpperCase on the words of the model.
ToLowerCase(w) ==
    CASE w = "Timeout" -> "timeout"
      [] w = "TimeoutError" -> "timeouterror"
      [] w = "Orders" -> "orders"
      [] w = "ETIMEDOUT" -> "etimedout"
      [] w = "X" -> "x"
      [] w = "Xms" -> "xms"
      [] w = Timestamp -> "2024-02-16t10:30:45z"
      [] OTHER -> w

ToUpperCase(w) ==
    CASE w = "etimedout" -> "ETIMEDOUT"
      [] OTHER -> w

\* /[0-9a-f]{8}-[0-9a-f]{4}-[0-9a-f]{4}-[0-9a-f]{4}-[0-9a-f]{12}/gi -> 'X'
ReplaceUuids(w) ==
    CASE w = Uuid -> "X"
      [] w = Uuid \o Uuid -> "XX"
      [] OTHER -> w

\* /\d{4}-\d{2}-\d{2}[tT]\d{2}:\d{2}:\d{2}(\.\d{3})?[zZ]?/g -> 'X'
ReplaceTimestamps(w) ==
    CASE w \in {Timestamp, "2024-02-16t10:30:45z"} -> "X"
      [] OTHER -> w

\* A replacement of numbers with units that leaves every word as it is.
KeepUnits(w) == w

\* /\d+(\.\d+)?(ms|kb|mb|gb|s|sec)/gi -> 'X$2'
ReplaceUnits(w) ==
    CASE w \in {"5000ms", "8000ms"} -> "Xms"
      [] OTHER -> w

\* /\b\d{3,}\b/g -> 'X': numbers of three digits and more; "42" stays.
ReplaceNumbers(w) ==
    CASE w \in {"12345", "67890"} -> "X"
      [] OTHER -> w

\* /\b[0-9a-f]{8,}\b/gi -> 'X'
ReplaceHexIds(w) ==
    CASE w = "deadbeef" -> "X"
      [] OTHER -> w

\* /X+/g -> 'X'
CollapseXs(w) ==
    CASE w = "XX" -> "X"
      [] OTHER -> w

\* String.trim on a text: blank lines at either end go.
RECURSIVE Trim(_)
Trim(text) ==
    IF text = <<>> THEN text
    ELSE IF Head(text) = Newline THEN Trim(Tail(text))
    ELSE IF text[Len(text)] = Newline THEN Trim(SubSeq(text, 1, Len(text) - 1))
    ELSE text

\* normalizeDynamicValues: the replacements in the order of the code, then trim.
NormalizeDynamicValues(message) ==
    Trim([i \in DOMAIN message |->
            CollapseXs(ReplaceHexIds(ReplaceNumbers(ReplaceUnits(
                ReplaceTimestamps(ReplaceUuids(message[i]))))))])

\* errorMessage.split('\n'): the lines of a text.
RECURSIVE Split(_)
Split(text) ==
    IF \A i \in DOMAIN text : text[i] # Newline
    THEN <<text>>
    ELSE LET k == CHOOSE i \in DOMAIN text :
                      text[i] = Newline /\ \A j \in 1..(i - 1) : text[j] # Newline
         IN <<SubSeq(text, 1, k - 1)>> \o Split(SubSeq(text, k + 1, Len(text)))

\* The first line of the message, or the whole message when that line is empty,
\* in lower case and trimmed.
FirstLine(errorMessage) ==
    LET lines == Split(errorMessage)
        line == IF lines[1] # <<>> THEN lines[1] ELSE errorMessage
    IN Trim([i \in DOMAIN line |-> ToLowerCase(line[i])])

\* generateSemanticHash: the components that are hashed, empty ones left out.
\* (The digest itself is taken to tell different component lists apart.)
GenerateSemanticHash(errorPattern) ==
    LET normalizedType == ToLowerCase(errorPattern.errorType)
        normalizedCode == ToUpperCase(errorPattern.errorCode)
        normalizedMessage == NormalizeDynamicValues(FirstLine(errorPattern.errorMessage))
        normalizedService == ToLowerCase(errorPattern.affectedService)
        components == <<<<normalizedType>>, <<normalizedCode>>, normalizedMessage,
                        <<normalizedService>>>>
    IN SelectSeq(components, LAMBDA c : c \notin {<<>>, <<"">>})

\* The message of an error pattern in its normalized form.
Normalized(errorPattern) ==
    NormalizeDynamicValues(FirstLine(errorPattern.errorMessage))

\* How many words a line of the model holds at most.
MaxWords == 2

HashWords ==
    {"Timeout", "after", "5000ms", "8000ms", "12345", "67890", "42", "deadbeef",
     Uuid, Uuid \o Uuid, Timestamp, "X", "Xms"}

RECURSIVE LinesOf(_)
LinesOf(n) ==
    IF n = 0 THEN {<<>>}
    ELSE LinesOf(n - 1) \cup {Append(l, w) : l \in LinesOf(n - 1), w \in HashWords}

\* Messages of one line, and of a first line (possibly empty) before a stack line.
HashMessages ==
    LinesOf(MaxWords) \cup {l \o <<Newline, "at", "handler">> : l \in LinesOf(MaxWords)}

HashPatterns ==
    [errorType : {"TimeoutError"}, errorCode : {"", "etimedout"},
     errorMessage : HashMessages, affectedService : {"Orders"}]

\* generateSemanticHash is applied to the pattern.
Hash ==
    /\ ~hashed.done
    /\ hashed' = [done |-> TRUE, again |-> FALSE, pattern |-> hashed.pattern,
                  hash |-> GenerateSemanticHash(hashed.pattern), rehash |-> <<>>]
    /\ UNCHANGED <<arrivals, config, ana, hist, monVars, enrichedBus, faults, downstream>>

\* generateSemanticHash is applied to the pattern with its message normalized.
HashNormalized ==
    /\ hashed.done
    /\ ~hashed.again
    /\ hashed' = [hashed EXCEPT
                    !.again = TRUE,
                    !.rehash = GenerateSemanticHash(
                                [hashed.pattern EXCEPT
                                    !.errorMessage = Normalized(hashed.pattern)])]
    /\ UNCHANGED <<arrivals, config, ana, hist, monVars, enrichedBus, faults, downstream>>

HashInit ==
    /\ MonitorIdle
    /\ ana = NoAna
    /\ hist = NoHist
    /\ arrivals = NoneReceived
    /\ cache = [f \in Fingerprints |-> NoEntry]
    /\ records = [m \in Msgs |-> NoEntry]
    /\ clock = 0
    /\ effects = [m \in Msgs |-> NoEffects]
    /\ exec = NoRun
    /\ classifiedBus = {}
    /\ config = DefaultConfig
    /\ triggers = {}
    /\ dlq = [m \in Msgs |-> "none"]
    /\ ledger = [m \in Msgs |-> NoItem]
    /\ body = DefaultBody
    /\ faults = 0
    /\ hashed \in {[done |-> FALSE, pattern |-> x] : x \in HashPatterns}

HashNext == Hash \/ HashNormalized

HashSpec == HashInit /\ [][HashNext]_vars

---------------------------------------------------------------------------
\* Properties of the Monitor (under Spec).

Log(p, m) == mon[p].log[m]
DLQUrls == SeqToSet(DiscoverDLQs(TRUE))
PublishFailures(p) == {m \in Msgs : Log(p, m).pub = "fail"}

\* C1: for a message that passed the retry-limit test, a delete is issued only
\* after its publish was accepted; when the publish fails the invocation issues
\* no delete for it, and with no other invocation around it is still in its queue.
C1_DeleteOnlyAfterPublish ==
    \A p \in Invocations : \A m \in Msgs :
        /\ (~Log(p, m).capped /\ Log(p, m).del # "none") => Log(p, m).pub = "ok"
        /\ mon[p].pc = "delete" => Log(p, mon[p].batch[mon[p].idx]).pub = "ok"
        /\ Log(p, m).pub = "fail" => Log(p, m).del = "none"
        /\ (Log(p, m).pub = "fail" /\ triggers = {p}) => dlq[m] \in {"inflight", "visible"}

C1_Witness ==
    \E p \in Invocations : \E m \in Msgs :
        /\ Log(p, m).pub = "fail" /\ Log(p, m).done
        /\ mon[p].outcome = "returned" /\ dlq[m] = "visible"

\* C2 as stated: once a message's publish is acknowledged and its processing is
\* over, the message is gone from its queue.
C2_AcknowledgedIsRemoved ==
    \A p \in Invocations : \A m \in Msgs :
        (Log(p, m).pub = "ok" /\ Log(p, m).done) => dlq[m] = "deleted"

\* C2, amended: no delete is issued for a message whose publish was not accepted;
\* for an acknowledged message one delete is issued, the message is gone when that
\* delete succeeds, and it stays in the queue when the delete fails (no other
\* invocation being around).
C2_DeleteIssuedIffAcknowledged ==
    \A p \in Invocations : \A m \in Msgs :
        /\ (~Log(p, m).capped /\ Log(p, m).pub # "ok") => Log(p, m).del = "none"
        /\ (Log(p, m).pub = "ok" /\ Log(p, m).done) => Log(p, m).del \in {"ok", "fail"}
        /\ (Log(p, m).pub = "ok" /\ Log(p, m).del = "ok") => dlq[m] = "deleted"
        /\ (Log(p, m).pub = "ok" /\ Log(p, m).del = "fail" /\ triggers = {p})
               => dlq[m] \in {"inflight", "visible"}

C2_Witness ==
    \E p \in Invocations : \E m \in Msgs :
        /\ Log(p, m).pub = "ok" /\ Log(p, m).del = "fail" /\ Log(p, m).done
        /\ dlq[m] = "visible"

\* C3 as stated: when the entry read holds a count of 3 or more, the message is
\* deleted without enrichment or publish.
C3_ReadAtCapIsDropped ==
    \A p \in Invocations : \A m \in Msgs :
        (Log(p, m).item >= 3 /\ Log(p, m).done)
            => /\ Log(p, m).capped
               /\ Log(p, m).enrichedRc = Unset
               /\ Log(p, m).pub = "none"

\* C3, amended: when the entry read holds a count of 3 or more and the ledger
\* write succeeds, a delete is issued and there is no enrichment, publish or
\* record for the message; when the entry holds 2 or less, is absent, or the
\* ledger fails, the message goes on to enrichment and publish.
C3_HardCap ==
    \A p \in Invocations : \A m \in Msgs :
        /\ (Log(p, m).item >= 3 /\ ~Log(p, m).ledgerFailed /\ Log(p, m).done)
              => /\ Log(p, m).capped /\ Log(p, m).del # "none"
                 /\ Log(p, m).enrichedRc = Unset
                 /\ Log(p, m).pub = "none"
                 /\ records[m] = NoEntry
        /\ ((Log(p, m).item <= 2 \/ Log(p, m).ledgerFailed) /\ Log(p, m).done)
              => /\ ~Log(p, m).capped
                 /\ Log(p, m).enrichedRc # Unset
                 /\ Log(p, m).pub # "none"

C3_Witness ==
    \E p \in Invocations :
        /\ Log(p, "m1").item = 3 /\ Log(p, "m1").capped /\ Log(p, "m1").done
        /\ Log(p, "m2").item = 2 /\ Log(p, "m2").pub = "ok"

\* C4: when the ledger read or write fails, deduplication reports "not a
\* duplicate, count 0", the message goes on to enrichment and publish, and it is
\* never deleted without having been published.
C4_LedgerFailsOpen ==
    \A p \in Invocations : \A m \in Msgs :
        Log(p, m).ledgerFailed
            => /\ Log(p, m).dedup = [isDuplicate |-> FALSE, retryCount |-> 0]
               /\ ~Log(p, m).capped
               /\ Log(p, m).done => (Log(p, m).enrichedRc # Unset /\ Log(p, m).pub # "none")
               /\ Log(p, m).del # "none" => Log(p, m).pub = "ok"
               /\ (mon[p].pc \in {"dedupGet", "dedupPut", "capDelete"})
                      => mon[p].batch[mon[p].idx] # m

C4_Witness ==
    \E p \in Invocations : \E m \in Msgs :
        /\ Log(p, m).ledgerFailed /\ Log(p, m).item >= 3
        /\ Log(p, m).pub = "ok" /\ Log(p, m).done

\* C5 as stated: the count stored for a message never decreases, whatever the
\* interleaving of the invocations' reads and writes.
C5_RetryCountMonotonic ==
    [][\A m \in Msgs : ledger[m] # NoItem => ledger'[m] >= ledger[m]]_vars

\* C6: no failure aborts an invocation. A discovery failure gives a run that
\* does nothing; a failed poll adds no message and every other queue is still
\* polled; a message whose publish fails is counted as failed, gets no delete,
\* and the rest of the batch is processed; handler never throws.
C6_FailuresAreIsolated ==
    \A p \in Invocations :
        LET r == mon[p]
        IN /\ r.outcome # "threw"
           /\ (r.discoverFailed /\ r.outcome = "returned")
                 => /\ r.batch = <<>> /\ r.polled = {}
                    /\ r.processed = 0 /\ r.failed = 0 /\ r.forwarded = 0
           /\ (~r.discoverFailed /\ r.outcome = "returned") => r.polled = DLQUrls
           /\ \A i \in 1..Len(r.batch) : QueueOf(r.batch[i]) \notin r.pollFailed
           /\ r.outcome = "returned" => \A i \in 1..Len(r.batch) : r.log[r.batch[i]].done
           /\ r.failed = Cardinality(PublishFailures(p))
           /\ \A m \in PublishFailures(p) : r.log[m].del = "none"

C6_Witness ==
    \E p \in Invocations :
        /\ mon[p].outcome = "returned"
        /\ mon[p].pollFailed = {"orders-dlq"}
        /\ Log(p, "m2").pub = "fail"
        /\ mon[p].failed = 1

---------------------------------------------------------------------------
\* Properties of the whole pipeline (under PipeSpec).

\* The world has received a recovery action for message m: a re-enqueue, an
\* archive with its alert, or an incident.
Acted(m) ==
    \/ effects[m].sent > 0
    \/ effects[m].archived > 0 /\ effects[m].alerted > 0
    \/ effects[m].incidents > 0

\* An event the Executor cannot accept, whatever its collaborators answer.
Doomed(e) == \A o \in Outcomes : Execute(e, o, clock).threw

\* C7 as stated, as a final result: once a message that was never dropped at the
\* retry limit is deleted from its DLQ and nothing is left for it that a stage
\* could still complete, it has received its recovery action.
C7_EveryMessageIsHandled ==
    \A m \in Msgs :
        ( /\ dlq[m] = "deleted"
          /\ ledger[m] <= HARD_CAP_LIMIT
          /\ enrichedBus = {}
          /\ \A e \in classifiedBus : Doomed(e) )
            => Acted(m)

---------------------------------------------------------------------------
\* Properties of the Executor (under ExecSpec).

RunCategory == exec.event.classification.category
RunRetryCount == exec.event.message.retryCount
RunApis == {exec.calls[i].api : i \in DOMAIN exec.calls}

\* C8: one handler is invoked, the one of the event's category, and only its
\* collaborators are called; an event of any other category invokes no handler,
\* has no side effect and makes the Executor throw, the event staying with the bus.
C8_ExactlyOneHandler ==
    exec.ran =>
        /\ RunCategory = "TRANSIENT"
              => exec.handlers = <<"handleTransientFailure">> /\ RunApis \subseteq {"sqs.sendMessage"}
        /\ RunCategory = "POISON_PILL"
              => exec.handlers = <<"handlePoisonPill">> /\ RunApis \subseteq {"s3.putObject", "sns.publish"}
        /\ RunCategory = "SYSTEMIC"
              => exec.handlers = <<"handleSystemicFailure">> /\ RunApis \subseteq {"pagerduty.enqueue"}
        /\ RunCategory \notin {"TRANSIENT", "POISON_PILL", "SYSTEMIC"}
              => /\ exec.handlers = <<>> /\ exec.calls = <<>>
                 /\ exec.threw
                 /\ exec.event \in classifiedBus
                 /\ \A m \in Msgs : effects[m] = NoEffects

C8_Witness ==
    /\ exec.ran /\ RunCategory = "UNKNOWN" /\ exec.threw
    /\ exec.event \in classifiedBus

\* C9: the Executor returns (and the event leaves the bus) only when the handler
\* made its calls and all of them were accepted; when a call of the handler
\* fails the Executor throws and the event stays with the bus.
C9_ReturnsOnlyOnSuccess ==
    exec.ran =>
        /\ ~exec.threw
              => /\ exec.calls # <<>>
                 /\ \A i \in DOMAIN exec.calls : exec.calls[i].ok
                 /\ Acted(exec.event.message.messageId)
        /\ (\E i \in DOMAIN exec.calls : ~exec.calls[i].ok) => exec.threw
        /\ exec.threw <=> exec.event \in classifiedBus

C9_Witness ==
    /\ exec.ran /\ exec.threw
    /\ RunCategory = "POISON_PILL"
    /\ Len(exec.calls) = 2 /\ exec.calls[1].ok /\ ~exec.calls[2].ok
    /\ exec.event \in classifiedBus

\* C10: at a retry count of 5 or more the retry handler sends nothing, fails with
\* the max-retries reason, and no incident is posted; at 4 or less one send to the
\* original queue is attempted, carrying the count plus one.
C10_RetryCeiling ==
    (exec.ran /\ RunCategory = "TRANSIENT") =>
        /\ RunRetryCount >= 5
              => /\ exec.calls = <<>>
                 /\ exec.threw /\ exec.error = "Max retry attempts exceeded"
                 /\ \A m \in Msgs : effects[m].sent = 0 /\ effects[m].incidents = 0
        /\ RunRetryCount <= 4
              => /\ Len(exec.calls) = 1
                 /\ exec.calls[1].api = "sqs.sendMessage"
                 /\ exec.calls[1].retryCount = RunRetryCount + 1

C10_Witness ==
    /\ exec.ran /\ RunCategory = "TRANSIENT" /\ RunRetryCount = 5
    /\ exec.calls = <<>> /\ exec.threw

\* The re-enqueues of the last Executor run, and what the event recommended.
Sends == {i \in DOMAIN exec.calls : exec.calls[i].api = "sqs.sendMessage"}
Recommended == exec.event.classification.recommendedAction.retryDelaySeconds
Backoff(rc) == IF 30 * Pow2(rc) < 900 THEN 30 * Pow2(rc) ELSE 900
BackoffTable ==
    /\ \A rc \in 0..4 : CalculateBackoffDelay(rc) = <<30, 60, 120, 240, 480>>[rc + 1]
    /\ \A rc \in 0..(MaxExecRetry - 1) :
            CalculateBackoffDelay(rc) <= CalculateBackoffDelay(rc + 1)
    /\ \A rc \in 5..MaxExecRetry : CalculateBackoffDelay(rc) = 900

C14_ReenqueueToOwnQueue ==
    exec.ran =>
        \A i \in Sends :
            exec.calls[i].ok =>
                LET request == exec.calls[i].request
                    message == exec.event.message
                IN /\ request.QueueUrl = OriginalQueue(message.sourceQueue)
                   /\ request.QueueUrl # message.sourceQueue
                   /\ request.MessageBody = message.body
                   /\ request.retryCount = message.retryCount + 1
                   /\ request.originalMessageId = message.messageId
                   /\ request.classificationCategory = RunCategory

\* C15: the Archive handler publishes the alert only after the archive write has
\* succeeded; when the write fails no alert is published and the handler
\* reports failure (the Executor throws).
C15_AlertAfterArchive ==
    exec.ran =>
        /\ \A i \in CallsTo(exec.calls, "sns.publish") :
              \E j \in CallsTo(exec.calls, "s3.putObject") : j < i /\ exec.calls[j].ok
        /\ (\E j \in CallsTo(exec.calls, "s3.putObject") : ~exec.calls[j].ok) =>
              /\ CallsTo(exec.calls, "sns.publish") = {}
              /\ exec.threw

\* An archive write failed: the run made that one call and threw.
C15_Witness ==
    /\ exec.ran
    /\ RunCategory = "POISON_PILL"
    /\ Len(exec.calls) = 1
    /\ exec.calls[1].api = "s3.putObject"
    /\ ~exec.calls[1].ok
    /\ exec.threw

---------------------------------------------------------------------------
\* Properties of the Executor under redelivery (under RedeliverSpec).

\* C11 as stated: however often one MessageClassified event is delivered, the
\* number of enqueues it causes stays bounded (here: by the retry ceiling).
C11_EnqueuesBounded ==
    \A m \in Msgs : effects[m].sent <= MAX_RETRY_ATTEMPTS

\* C16 as stated: whatever retries and duplicate deliveries the archive event
\* goes through, the archive holds at most one object for the message.
C16_OneArchiveObject ==
    \A m \in Msgs : Cardinality(effects[m].objects) <= 1

\* C17: the dedup key the Escalate handler sends is queuemint-systemic-<source
\* queue>-<error type>, made of the message's source queue and error type and of
\* nothing else (no message id, no time), so it is the same on every delivery and
\* for every message of that queue and error type; on success the incident
\* identifier returned is that key, as echoed by the incident API.
C17_DedupKey ==
    exec.ran =>
        LET key == <<"queuemint", "systemic", exec.event.message.sourceQueue,
                     exec.event.message.errorType>>
        IN /\ \A i \in CallsTo(exec.calls, "pagerduty.enqueue") :
                 exec.calls[i].request.dedup_key = key
           /\ (RunCategory = "SYSTEMIC" /\ ~exec.threw) =>
                 exec.details = [pagerDutyIncidentId |-> key]

\* The same escalation event was delivered twice, the second time at a later
\* hour, and the second run returned the key of the message's queue and error type.
C17_Witness ==
    /\ exec.ran
    /\ ~exec.threw
    /\ clock > 0
    /\ effects["m2"].incidents = 2
    /\ exec.details = [pagerDutyIncidentId |->
                          <<"queuemint", "systemic", "billing-dlq", "UnknownError">>]

---------------------------------------------------------------------------
\* Properties of the replay cycle (under CycleSpec).

\* C12 as stated: over all the cycles a failing message goes through, it is
\* replayed to its original queue at most 3 times.
C12_ReplayedAtMostThrice ==
    \A m \in Msgs : effects[m].sent <= 3

---------------------------------------------------------------------------
\* Properties of the classification record (under PipeSpec).

\* C18 as stated: once a handler has succeeded for a message, the record under
\* its message id has the outcome SUCCESS; once it has failed, FAILED.
C18_OutcomeWrittenBack ==
    exec.ran =>
        LET record == records[exec.event.message.messageId]
        IN /\ record # NoEntry
           /\ (~exec.threw) => record.recoveryOutcome = "SUCCESS"
           /\ (exec.threw /\ exec.handlers # <<>>) => record.recoveryOutcome = "FAILED"

ConsistentTriples ==
    {<<"TRANSIENT", "REPLAYED", "TransientFailure">>,
     <<"POISON_PILL", "ARCHIVED", "PoisonPillFailure">>,
     <<"SYSTEMIC", "ESCALATED", "SystemicFailure">>}

\* C19 as stated: every record the Analyzer wrote and every MessageClassified
\* event it published carries one of the three consistent (category, action
\* taken, detail type) triples, whichever path decided.
C19_TripleConsistent ==
    /\ \A m \in Msgs :
          records[m] # NoEntry =>
              \E t \in ConsistentTriples :
                  records[m].classification = t[1] /\ records[m].actionTaken = t[2]
    /\ \A e \in classifiedBus :
          <<e.classification.category,
            MapActionToTaken(e.classification.recommendedAction.action),
            e.detailType>> \in ConsistentTriples

\* C20: whenever the Analyzer publishes a MessageClassified event, the record
\* for its message id, with outcome PENDING, has been written by then; an
\* invocation whose record write failed publishes nothing and throws, so the
\* MessageEnriched event stays with the bus.
C20_RecordBeforePublish ==
    [][ /\ \A e \in classifiedBus' \ classifiedBus :
              /\ records'[e.message.messageId] = Record(e.message, e.classification)
              /\ records'[e.message.messageId].recoveryOutcome = "PENDING"
        /\ (enrichedBus' # enrichedBus /\ enrichedBus' \subseteq enrichedBus) =>
              \E e \in classifiedBus' :
                  /\ e.message \in enrichedBus \ enrichedBus'
                  /\ records'[e.message.messageId] # NoEntry ]_vars

\* A record write failed after the result was cached: no record, no
\* MessageClassified event, and the MessageEnriched event still with the bus.
C20_Witness ==
    /\ records["m1"] = NoEntry
    /\ \E f \in Fingerprints : cache[f] # NoEntry
    /\ \E e \in enrichedBus : e.messageId = "m1"
    /\ classifiedBus = {}
    /\ faults < PipeMaxFaults

---------------------------------------------------------------------------
\* Properties of the Executor's emergency switch (under ExecSpec).

\* C29 as stated: while the autoReplayEnabled switch is off the Executor
\* re-enqueues no message to an original queue.
C29_SwitchOffNoReplay ==
    ~config.autoReplayEnabled => \A m \in Msgs : effects[m].sent = 0

---------------------------------------------------------------------------
\* Properties of the Analyzer (under AnalyzeSpec).

\* C21 as stated: when the Analyzer is given the event of its previous invocation
\* again, the record it leaves for the message has the content the previous
\* invocation wrote (the record has no timestamp here).
C21_SameEventSameRecord ==
    [][ \A m \in Msgs :
          ( /\ ana.ran /\ ana'.ran
            /\ ana'.event = ana.event
            /\ ana.event.messageId = m
            /\ records[m] = Record(ana.event, ana.result) )
          => records'[m] = records[m] ]_vars

\* C22 as stated: a classification returned from the cache is the entry stored
\* for the message's fingerprint, with its category, confidence and reasoning
\* unchanged, and was obtained by the cache read alone (no LLM call, no rewrite).
C22_CacheHitReturnsEntry ==
    (ana.ran /\ ana.result.metadata.cacheHit) =>
        LET entry == cache[Fingerprint(ana.event)]
        IN /\ entry # NoEntry
           /\ ana.calls = <<"cache.get">>
           /\ ana.result.category = entry.category
           /\ ana.result.confidence = entry.confidence
           /\ ana.result.reasoning = entry.reasoning

\* The calls the last run of classify made.
Called(call) == \E i \in DOMAIN ana.calls : ana.calls[i] = call

\* The last run of classify missed the cache (no entry, an expired one, a failed read).
CacheMiss == ana.ran /\ ~ana.result.metadata.cacheHit

\* The deployment correlation applies to the event of the last run.
Correlated ==
    /\ ana.event.similarFailuresLast1h >= 10
    /\ Len(ana.event.recentDeployments) > 0

FromDeploymentRule ==
    /\ ana.result.category = "SYSTEMIC"
    /\ ana.result.confidence = 92
    /\ ana.result.reasoning = "Deployment Correlation"
    /\ ana.result.metadata.llmModel = "heuristic"
    /\ ~Called("llm")

\* C23 as stated: on a cache miss with 10 or more similar failures and a recent
\* deployment, the classification is SYSTEMIC at 0.92 from the deployment
\* correlation and the LLM is not called, whatever the message; otherwise the
\* deployment correlation does not fire.
C23_CorrelationAlwaysSystemic ==
    CacheMiss =>
        /\ Correlated => FromDeploymentRule
        /\ ~Correlated => ana.result.reasoning # "Deployment Correlation"

\* C23, amended: as above when 0.92 meets the configured confidence threshold
\* (as it does at the default 0.85); under a higher threshold the rule's result
\* is discarded and the LLM is called.
C23_CorrelationSystemic ==
    CacheMiss =>
        /\ (Correlated /\ 92 >= config.confidenceThreshold) => FromDeploymentRule
        /\ (Correlated /\ 92 < config.confidenceThreshold) => Called("llm")
        /\ ~Correlated => ana.result.reasoning # "Deployment Correlation"

C23_Witness ==
    /\ CacheMiss
    /\ Correlated
    /\ ana.event.errorMessage = {"Network Timeout"}
    /\ FromDeploymentRule

\* The last run's result is that of rule i of the pattern table, without the LLM.
FromRule(i) ==
    /\ ana.result.category = ErrorPatterns[i].category
    /\ ana.result.confidence = ErrorPatterns[i].confidence
    /\ ana.result.reasoning = ErrorPatterns[i].name
    /\ ana.result.metadata.llmModel = "heuristic"
    /\ ~Called("llm")

\* The rules whose pattern matches the event of the last run.
Matching == {i \in 1..Len(ErrorPatterns) : ErrorPatterns[i].name \in ana.event.errorMessage}

First(S) == CHOOSE i \in S : \A j \in S : i <= j

\* C24 as stated: on a cache miss without deployment correlation the result is
\* that of the first rule, in table order, that both matches the message and has
\* a confidence at or above the configured threshold; the LLM is called only
\* when no rule does both.
C24_FirstRuleMeetingThreshold ==
    (CacheMiss /\ ~Correlated) =>
        LET meeting == {i \in Matching :
                            ErrorPatterns[i].confidence >= config.confidenceThreshold}
        IN IF meeting # {} THEN FromRule(First(meeting)) ELSE Called("llm")

\* C24, amended: the rule considered is the first one that matches, whatever its
\* confidence; its result is used when its confidence is at or above the
\* configured threshold, and otherwise the LLM is called, also when a later
\* matching rule would meet the threshold.
C24_FirstMatchThenThreshold ==
    (CacheMiss /\ ~Correlated) =>
        IF /\ Matching # {}
           /\ ErrorPatterns[First(Matching)].confidence >= config.confidenceThreshold
        THEN FromRule(First(Matching))
        ELSE Called("llm")

C24_Witness ==
    /\ CacheMiss
    /\ ~Correlated
    /\ ana.event.errorMessage = {"Null Pointer", "Division by Zero"}
    /\ config.confidenceThreshold = 90
    /\ Called("llm")

\* The LLM was called in the last run and the call threw (API error, timeout of
\* the client) or its reply held no JSON object.
LlmFailed == Called("llm") /\ ana.reply.kind \in {"throws", "nojson"}

\* The LLM was called in the last run and its reply held a JSON object that
\* breaks one of the three requirements.
LlmInvalid ==
    /\ Called("llm")
    /\ ana.reply.kind = "json"
    /\ \/ ana.reply.category \notin Categories
       \/ ana.reply.confidence.type # "number"
       \/ ana.reply.confidence.value < 0
       \/ ana.reply.confidence.value > 100
       \/ ana.reply.reasoning \in {"", " "}

\* The last run's result is the conservative fallback, and nothing was cached.
IsFallback ==
    /\ ana.result.category = "SYSTEMIC"
    /\ ana.result.confidence = 60
    /\ ana.result.reasoning = "LLM classification failed, requires human review"
    /\ ana.result.metadata.llmModel = "fallback"
    /\ ana.result.recommendedAction.action = "ESCALATE"
    /\ ana.result.recommendedAction.escalationSeverity = "P1"
    /\ ana.calls = <<"cache.get", "llm">>

\* C25: when the LLM call throws or times out, or its reply fails parsing or
\* validation, classify returns SYSTEMIC at 0.6 with the reasoning 'LLM
\* classification failed, requires human review', model tag fallback and the
\* recommended action ESCALATE at P1; the handler goes on with that result.
C25_FailedLlmFallsBack ==
    (ana.ran /\ (LlmFailed \/ LlmInvalid)) =>
        /\ IsFallback
        /\ ana.outcome \in {"returned", "store failed", "publish failed"}

C25_Witness ==
    /\ ana.ran
    /\ LlmFailed
    /\ ana.reply.kind = "throws"
    /\ IsFallback
    /\ ana.outcome = "returned"

\* The last run's classification was taken from the LLM's reply.
FromLlm == CacheMiss /\ ana.result.metadata.llmModel = "claude"

\* C26: a classification taken from an LLM reply has one of the three categories,
\* a numeric confidence between 0 and 1 and a reasoning that is not blank, and
\* is the reply's own three fields; a reply that breaks one of the three
\* requirements, or holds no JSON object, is not used in any part: the result is
\* the fallback and nothing is cached.
C26_LlmReplyValidOrUnused ==
    /\ FromLlm =>
          /\ ana.reply.kind = "json"
          /\ ana.reply.confidence.type = "number"
          /\ ana.result.category = ana.reply.category
          /\ ana.result.confidence = ana.reply.confidence.value
          /\ ana.result.reasoning = ana.reply.reasoning
          /\ ana.result.category \in Categories
          /\ ana.result.confidence \in 0..100
          /\ ana.result.reasoning \notin {"", " "}
    /\ (ana.ran /\ (LlmInvalid \/ (Called("llm") /\ ana.reply.kind = "nojson"))) =>
          /\ ana.result.metadata.llmModel = "fallback"
          /\ ana.result.category = Fallback.category
          /\ ana.result.confidence = Fallback.confidence
          /\ ana.result.reasoning = Fallback.reasoning
          /\ ~Called("cache.put")

C26_Witness ==
    /\ ana.ran
    /\ LlmInvalid
    /\ ana.reply.confidence = Number(150)
    /\ ana.result.metadata.llmModel = "fallback"
    /\ ana.result.confidence = 60

\* The action the claim gives for a category and the retry count of the message
\* being classified.
ActionFor(category, retryCount) ==
    CASE category = "TRANSIENT" ->
           [action |-> "REPLAY",
            retryDelaySeconds |-> IF retryCount >= 5 THEN 900 ELSE 30 * Pow2(retryCount),
            maxRetries |-> 3, escalationSeverity |-> "none", humanReviewRequired |-> FALSE]
      [] category = "POISON_PILL" ->
           [action |-> "ARCHIVE", retryDelaySeconds |-> Unset, maxRetries |-> Unset,
            escalationSeverity |-> "none", humanReviewRequired |-> TRUE]
      [] category = "SYSTEMIC" ->
           [action |-> "ESCALATE", retryDelaySeconds |-> Unset, maxRetries |-> Unset,
            escalationSeverity |-> "P1", humanReviewRequired |-> TRUE]

\* C27 as stated: on every decision path the recommended action of a returned
\* classification is the action of one of the three categories for the retry
\* count of the message being classified, and is that of the classification's
\* own category: REPLAY with delay min(30 * 2^retry_count, 900), 3 retries and
\* no review for TRANSIENT, ARCHIVE with review for POISON_PILL, ESCALATE at P1
\* with review for SYSTEMIC.
C27_ActionFollowsCategory ==
    ana.ran =>
        /\ \E c \in Categories :
              ana.result.recommendedAction = ActionFor(c, ana.event.retryCount)
        /\ ana.result.category \in Categories =>
              ana.result.recommendedAction =
                  ActionFor(ana.result.category, ana.event.retryCount)

\* C28 as stated: while llm_classification_enabled is false the Analyzer does not
\* call the LLM; a message that misses the cache and the heuristics gets the
\* fallback classification.
C28_DisabledLlmNotCalled ==
    (ana.ran /\ ~config.llmClassificationEnabled) =>
        /\ ~Called("llm")
        /\ (CacheMiss /\ ana.result.metadata.llmModel # "heuristic") =>
              /\ ana.result.metadata.llmModel = "fallback"
              /\ ana.result.category = "SYSTEMIC"
              /\ ana.result.confidence = 60

---------------------------------------------------------------------------
\* Properties of the semantic hash (under HashSpec).

\* The placeholders normalizeDynamicValues puts in the place of dynamic values.
Placeholders == {"X", "Xms"}

HasPlaceholder(line) == \E i \in DOMAIN line : line[i] \in Placeholders

\* Dynamic values of one kind.
DynamicValues == {{"5000ms", "8000ms"}, {"12345", "67890"}}

\* The words that differ from a word at most in being another value of its kind.
Alternatives(w) == {w} \cup UNION {d \in DynamicValues : w \in d}

\* The messages that differ from a message in dynamic values only.
RECURSIVE Variants(_)
Variants(message) ==
    IF message = <<>> THEN {<<>>}
    ELSE {<<w>> \o rest : w \in Alternatives(Head(message)),
                          rest \in Variants(Tail(message))}

SameHashForValues ==
    hashed.done =>
        \A m \in Variants(hashed.pattern.errorMessage) :
            GenerateSemanticHash([hashed.pattern EXCEPT !.errorMessage = m]) = hashed.hash

\* C30 as stated: the hash of an error pattern whose message is replaced by its
\* normalized form is the hash of the pattern itself, and two patterns that
\* differ only in a dynamic value have the same hash.
C30_NormalizationIdempotent ==
    /\ (hashed.done /\ hashed.again) => hashed.rehash = hashed.hash
    /\ SameHashForValues

\* C30, amended: two patterns that differ only in a dynamic value have the same
\* hash; the hash of the pattern with its message normalized is the hash of the
\* pattern exactly when normalization left no placeholder in the message.
C30_SameHashForDynamicValues ==
    /\ (hashed.done /\ hashed.again) =>
          (hashed.rehash = hashed.hash <=> ~HasPlaceholder(Normalized(hashed.pattern)))
    /\ SameHashForValues

C30_Witness ==
    /\ hashed.done
    /\ hashed.again
    /\ hashed.pattern.errorMessage = <<"after", "5000ms">>
    /\ hashed.hash =
          GenerateSemanticHash([hashed.pattern EXCEPT !.errorMessage = <<"after", "8000ms">>])
    /\ hashed.rehash # hashed.hash

---------------------------------------------------------------------------
\* Properties of the Monitor on a message received again and again (under
\* RereceiveSpec, and under Spec where the ledger may fail).

\* C31 as stated: a message deleted from its source queue by the Monitor has had
\* a MessageEnriched event accepted by the bus, in that or an earlier invocation.
C31_DeletedOnlyAfterForward ==
    \A m \in Msgs : dlq[m] = "deleted" => hist[m].published > 0

\* C32 as stated: every MessageEnriched event the Monitor published carries a
\* retry count of at most 3, the one the deduplication step returned for that
\* observation of the message.
C32_PublishedRetryCountCapped ==
    /\ \A e \in enrichedBus : e.retryCount <= HARD_CAP_LIMIT
    /\ \A p \in Invocations, m \in Msgs :
          mon[p].log[m].pub = "ok" =>
              mon[p].log[m].enrichedRc = mon[p].log[m].dedup.retryCount

\* C33 as stated: with the ledger available the bus accepts at most
\* HARD_CAP_LIMIT + 1 = 4 MessageEnriched events for one message, however often
\* the message is received again.
C33_AtMostFourPublishes ==
    \A m \in Msgs : hist[m].published <= HARD_CAP_LIMIT + 1

\* C34 as stated: with the ledger available, after k completed deduplication
\* checks of a message the ledger holds retry count k - 1 for it, also when the
\* checks come from overlapping invocations.
C34_LedgerCountsChecks ==
    \A m \in Msgs :
        (\A p \in Invocations : mon[p].pc # "dedupPut" \/ mon[p].batch[mon[p].idx] # m) =>
            IF hist[m].checks = 0 THEN ledger[m] = NoItem
            ELSE ledger[m] = hist[m].checks - 1

---------------------------------------------------------------------------
\* Properties of the Analyzer's cache and failures (under AnalyzeSpec).

\* C35: every write to the semantic cache comes from a run of classify that
\* missed the cache and classified by a heuristic rule or by the LLM, and the
\* entry written holds that result; a fallback and a cache hit write nothing.
C35_OnlyFreshResultsCached ==
    [][ \A f \in Fingerprints :
          cache'[f] # cache[f] =>
              /\ ana'.ran
              /\ f = Fingerprint(ana'.event)
              /\ ~ana'.result.metadata.cacheHit
              /\ ana'.result.metadata.llmModel \in {"heuristic", "claude"}
              /\ cache'[f].category = ana'.result.category
              /\ cache'[f].metadata.llmModel = ana'.result.metadata.llmModel ]_vars

C35_Witness ==
    /\ ana.ran
    /\ ana.result.metadata.llmModel = "fallback"
    /\ ana.reply.kind = "throws"
    /\ ana.failed = {"llm"}
    /\ cache[Fingerprint(ana.event)] = NoEntry

\* C36: a failed cache read, a failed cache write or a failed LLM call never
\* makes the Analyzer's handler fail: the handler throws only when the record
\* write or the publish failed, and an invocation that did not throw has
\* written the record of its classification and published its event.
C36_OnlyStoreAndPublishFail ==
    ana.ran =>
        /\ ana.outcome \in {"returned", "store failed", "publish failed"}
        /\ ana.failed \subseteq {"cache.get", "cache.put", "llm"}
        /\ ana.outcome = "returned" =>
              /\ records[ana.event.messageId] = Record(ana.event, ana.result)
              /\ Classified(ana.event, ana.result) \in classifiedBus
              /\ ana.event \notin enrichedBus

C36_Witness ==
    /\ ana.ran
    /\ ana.failed = {"cache.get"}
    /\ ana.outcome = "returned"
    /\ records[ana.event.messageId] = Record(ana.event, ana.result)

---------------------------------------------------------------------------
\* Properties of the pipeline end to end (under PipeSpec).

\* A MessageClassified event whose classification is classify's fallback.
FallbackEvent(e) ==
    /\ e.classification.metadata.llmModel = "fallback"
    /\ ~e.classification.metadata.cacheHit

SideActions(m) ==
    effects[m].sent + effects[m].archived + effects[m].alerted + effects[m].incidents

\* C38: effects occur in forward order for every message id. An Executor call
\* for a message is made only when the Analyzer has written a record for it,
\* and a record exists only when the bus has accepted a MessageEnriched event
\* for it; events enter each bus only from the stage before it, and a step of
\* a later stage changes nothing an earlier stage owns, also when an event is
\* delivered again or a message is published twice.
C38_ForwardOrder ==
    /\ [](\A m \in Msgs :
            /\ SideActions(m) > 0 => records[m] # NoEntry
            /\ (exec.ran /\ exec.event.message.messageId = m /\ exec.calls # <<>>)
                  => records[m] # NoEntry
            /\ (\E e \in classifiedBus : e.message.messageId = m) => records[m] # NoEntry
            /\ records[m] # NoEntry => hist[m].published > 0
            /\ (\E e \in enrichedBus : e.messageId = m) => hist[m].published > 0)
    /\ [][ /\ \A e \in enrichedBus' \ enrichedBus :
                 /\ hist'[e.messageId].published = hist[e.messageId].published + 1
                 /\ UNCHANGED <<anaVars, cache, records, classifiedBus, effects, exec>>
           /\ (records' # records \/ classifiedBus' \ classifiedBus # {}) =>
                 /\ ana'.ran
                 /\ ana'.event \in enrichedBus
                 /\ \A m \in Msgs : records'[m] # records[m] => m = ana'.event.messageId
                 /\ \A e \in classifiedBus' \ classifiedBus : e.message = ana'.event
                 /\ enrichedBus' \subseteq enrichedBus
                 /\ UNCHANGED <<monVars, hist, effects, exec>>
           /\ (effects' # effects \/ exec' # exec) =>
                 /\ exec'.ran
                 /\ exec'.event \in classifiedBus
                 /\ \A m \in Msgs :
                       effects'[m] # effects[m] => m = exec'.event.message.messageId
                 /\ classifiedBus' \subseteq classifiedBus
                 /\ UNCHANGED <<monVars, hist, enrichedBus, ana, cache, records>> ]_vars

\* A message published twice (its delete failed), classified, and acted on after
\* a delivery on which the Executor threw.
C38_Witness ==
    /\ hist["m1"].published = 2
    /\ records["m1"] # NoEntry
    /\ records["m1"].retryCount > 0
    /\ exec.ran
    /\ exec.event.message.messageId = "m1"
    /\ SideActions("m1") > 0
    /\ faults = 0

---------------------------------------------------------------------------
\* Properties of the deployment correlation across messages (under AnalyzeSpec).

\* C39 as stated: an event with 10 or more similar failures in the last hour
\* and a recent deployment is classified SYSTEMIC and routed to escalation,
\* whatever the cache holds for its fingerprint.
C39_CorrelatedIsEscalated ==
    (ana.ran /\ Correlated /\ ana.outcome = "returned") =>
        /\ ana.result.category = "SYSTEMIC"
        /\ ana.result.recommendedAction.action = "ESCALATE"
        /\ Classified(ana.event, ana.result).detailType = "SystemicFailure"

---------------------------------------------------------------------------
\* Messages with and without a MessageId: two source messages, told apart by
\* their receipt handles, processed by the Monitor one after the other and
\* classified by the Analyzer. Here the ledger is indexed by the key of
\* checkAndRecordMessage and the records by the messageId of the event.

\* How many calls may fail.
IdMaxFaults == 1

Handles == {"r1", "r2"}
MessageIds == {"id-a", "id-b"}
IdQueues == {"orders-dlq", "billing-dlq"}

\* processMessages, enrichMessage: message.MessageId || 'unknown'.
MessageIdOr(message) ==
    IF message.MessageId = Undefined THEN "unknown" ELSE message.MessageId

\* checkAndRecordMessage, getRetryCount: the Key of the GetCommand and the PutCommand.
LedgerKey(messageId, queueName) == <<messageId, queueName>>

\* enrichMessage: the event of a message under the id and the queue it was given.
EnrichMessage(message, queueName, rc, similar) ==
    [messageId |-> MessageIdOr(message), receiptHandle |-> message.ReceiptHandle,
     sourceQueue |-> queueName, body |-> message.Body, retryCount |-> rc,
     similarFailuresLast1h |-> similar, recentDeployments |-> GetRecentDeployments,
     errorType |-> InferErrorType(message.Body), errorMessage |-> message.Body,
     affectedService |-> InferServiceFromQueue(queueName)]

\* countSimilarFailures over the keyed ledger.
CountSimilarEntries(led, q) ==
    Max(0, Cardinality({k \in DOMAIN led : k[2] = q /\ led[k] # NoItem}) - 1)

\* The messages two receives may return: a MessageId is unique within its queue.
Arrivals ==
    {a \in [Handles -> [message : [MessageId : MessageIds \cup {Undefined},
                                   Body : {{"Network Timeout"}}],
                        queueName : IdQueues, processed : {0}]] :
        \A h, g \in Handles :
            ( /\ h # g
              /\ a[h].message.MessageId # Undefined
              /\ a[h].message.MessageId = a[g].message.MessageId )
                => a[h].queueName # a[g].queueName}

IdInit ==
    /\ MonitorIdle
    /\ triggers = {}
    /\ body = DefaultBody
    /\ config = DefaultConfig
    /\ classifiedBus = {}
    /\ faults = IdMaxFaults
    /\ ana = NoAna
    /\ hashed = NoHash
    /\ hist = NoHist
    /\ cache = [f \in Fingerprints |-> NoEntry]
    /\ clock = 0
    /\ effects = [m \in Msgs |-> NoEffects]
    /\ exec = NoRun
    /\ arrivals \in Arrivals
    /\ dlq = [h \in Handles |-> "visible"]
    /\ ledger = [k \in (MessageIds \cup {"unknown"}) \X IdQueues |-> NoItem]
    /\ records = [id \in MessageIds \cup {"unknown"} |-> NoEntry]

\* processMessages: one turn of the loop on the message behind handle h, with
\* the ledger available and the publish accepted; the delete may fail.
ProcessMessage(h) ==
    /\ dlq[h] = "visible"
    /\ LET message == [MessageId |-> arrivals[h].message.MessageId, ReceiptHandle |-> h,
                       Body |-> arrivals[h].message.Body]
           queueName == arrivals[h].queueName
           key == LedgerKey(MessageIdOr(message), queueName)
           item == ledger[key]
           res == IF item # NoItem THEN DuplicateResult(item) ELSE NewResult
           led == [ledger EXCEPT ![key] = res.retryCount]
       IN /\ ledger' = led
          /\ arrivals' = [arrivals EXCEPT ![h].processed = @ + 1]
          /\ enrichedBus' =
                IF ExceedsRetryLimit(res) THEN enrichedBus
                ELSE enrichedBus \cup
                        {EnrichMessage(message, queueName, GetRetryCount(led[key]),
                                       CountSimilarEntries(led, queueName))}
          /\ \/ /\ dlq' = [dlq EXCEPT ![h] = "deleted"]
                /\ UNCHANGED faults
             \/ /\ CanFail
                /\ faults' = faults - 1
                /\ UNCHANGED dlq
    /\ UNCHANGED <<config, ana, hashed, hist, triggers, mon, body, downstream>>

IdNext ==
    \/ \E h \in Handles : ProcessMessage(h)
    \/ AnalyzerStep

IdSpec == IdInit /\ [][IdNext]_vars

---------------------------------------------------------------------------
\* Properties of distinct messages (under IdSpec).

\* The ledger entry the Monitor uses for the message behind a handle.
LedgerKeyOf(h) == LedgerKey(MessageIdOr(arrivals[h].message), arrivals[h].queueName)

\* The events the bus has accepted and that are pending or were classified last.
SeenEvents == enrichedBus \cup (IF ana.ran THEN {ana.event} ELSE {})

\* C40 as stated: distinct source messages never share pipeline state. The
\* retry count stored for a message counts that message's own turns only (none
\* stored before its first, one less than its turns after), and the events of
\* two different source messages never carry the same record key, so that the
\* record of one is never written over the other's.
C40_DistinctMessagesDistinctState ==
    /\ \A h \in Handles :
          ledger[LedgerKeyOf(h)] =
              IF arrivals[h].processed = 0 THEN NoItem ELSE arrivals[h].processed - 1
    /\ \A e1, e2 \in SeenEvents :
          e1.receiptHandle # e2.receiptHandle => e1.messageId # e2.messageId

====
